---- MODULE Spec2Model ----
(***************************************************************************)
(* Location resolution and weather-data acquisition layer of the weather   *)
(* dashboard: the weather fetch functions with their two response caches   *)
(* (lib/utils/weather-api) and the location hook with its persisted        *)
(* preference (lib/utils/location-utils, contexts/LocationContext,         *)
(* pages/Settings).                                                        *)
(*                                                                         *)
(* Time is in milliseconds, as Date.now() and setTimeout use it.           *)
(* Coordinates are integers in units of 1/1000 degree.                     *)
(***************************************************************************)
EXTENDS Integers, Sequences, FiniteSets, TLC

(***************************************************************************)
(* Bounds of the model                                                     *)
(***************************************************************************)
\* number of fetch calls made in one session
MaxCalls == 2
\* number of refreshCurrentLocation calls made in one session
MaxRefresh == 1
\* number of requests the network fails in one session
MaxFailures == 3
\* the clock is followed for this many backoff periods past the expiry of
\* an entry cached at time 0
MaxLate == 1

(***************************************************************************)
(* Program constants                                                       *)
(***************************************************************************)
CACHE_DURATION == 1800000
CACHE_EXPIRATION == 900000
maxRetries == 3
BackoffBase == 500

Calls == 1..MaxCalls

\* latitudes of the requests made in a session (the longitude is fixed):
\* two coordinates that round to the same 2-decimal pair
Coords == {3139, 3141}
\* the (coordinate, unit) pairs forecasts are asked for
ForecastRequests == {<<3139, "celsius">>, <<3141, "celsius">>}
\* the parameter string fetchWeatherDataOptimized is called with
DefaultParams == "current=temperature_2m"

\* A provider payload is named by the request that returned it (call src,
\* attempt n), so two responses are never mistaken for one another.  Every
\* payload holds the current, daily and hourly sections that
\* fetchWeatherByCoordinates maps.
Payload(p, n) == [src |-> p, n |-> n]
NoData == [src |-> 0, n |-> 0]
\* What axios.get or fetch throws for attempt n of call p: every throw is an
\* Error of its own.
UpstreamError(p, n) == [message |-> "upstream error", src |-> p, n |-> n]
NoError == [message |-> "none", src |-> 0, n |-> 0]
\* new Error("Failed to fetch weather data. Please check your connection
\* and try again.")
GenericFailure ==
    [message |-> "Failed to fetch weather data. Please check your connection and try again.",
     src |-> 0, n |-> 0]

VARIABLES
    now,            \* Date.now()
    responseCache,  \* Map of fetchWithRetry: key -> [data, timestamp]
    cache,          \* Map of fetchWeatherDataOptimized: key -> [data, timestamp]
    calls           \* the fetch calls of the session, one record per call

VARIABLES
    storage,        \* localStorage: key -> <<>> (no item) or <<value>>
    locationData,   \* useLocationData: <<>> (null) or <<LocationData>>
    isLoading,      \* useLocationData: isLoading
    error,          \* useLocationData: <<>> (null) or <<Error>>
    booted,         \* the mount effect (initializeLocation) has run
    dets            \* the detectUserLocation calls of the session

VARIABLES
    resolves        \* the getCurrentPosition / getCurrentLocation calls

VARIABLES
    geocodingCache, \* Map of getLocationNameFromCoords: key -> name
    lookups         \* the getLocationNameFromCoords calls of the session

VARIABLES
    mapping         \* the provider response fetchWeatherByCoordinates maps

VARIABLES
    query,          \* LocationSearch: the text of the input
    results,        \* LocationSearch: the places listed
    showResults,    \* LocationSearch: the list is open
    isSearching,    \* LocationSearch: isSearching
    debounced,      \* debouncedSearch: <<>> or <<the argument of the pending call>>
    searches        \* the searchLocation calls of the session

fetchVars == <<now, responseCache, cache, calls>>
locVars == <<storage, locationData, isLoading, error, booted, dets>>
resolverVars == <<resolves>>
geocodeVars == <<geocodingCache, lookups>>
\* what the fetch layer / the location layer leaves alone
normalizeVars == <<mapping>>
searchVars == <<query, results, showResults, isSearching, debounced, searches>>
outsideFetch == <<locVars, resolverVars, geocodeVars, normalizeVars, searchVars>>
outsideLocation == <<fetchVars, resolverVars, geocodeVars, normalizeVars, searchVars>>
outsideResolver == <<locVars, geocodeVars, normalizeVars, searchVars>>
outsideGeocode == <<fetchVars, locVars, resolverVars, normalizeVars, searchVars>>
outsideNormalize == <<fetchVars, locVars, resolverVars, geocodeVars, searchVars>>
outsideSearch == <<fetchVars, locVars, resolverVars, geocodeVars, normalizeVars>>
vars == <<fetchVars, locVars, resolverVars, geocodeVars, normalizeVars, searchVars>>

(***************************************************************************)
(* Pure helpers of weather-api                                             *)
(***************************************************************************)
createCacheKey(endpoint, params) == <<endpoint, params>>

\* the params object fetchWeatherByCoordinates builds: the literal
\* coordinate and the unit (the parameter lists are the same in every call)
ForecastParams(coord, unit) == [latitude |-> coord, temperature_unit |-> unit]

\* latitude.toFixed(2) on a coordinate held in 1/1000 degree
toFixed2(c) == ((c + 5) \div 10) * 10

\* a key made of the coordinate as passed
OptimizedKey_Unrounded(coord, params) == <<"weather", coord, params>>

\* `weather:${roundedLat}:${roundedLon}:${params}`
OptimizedKey(coord, params) == <<"weather", toFixed2(coord), params>>

Pow2(n) == IF n = 0 THEN 1 ELSE IF n = 1 THEN 2 ELSE IF n = 2 THEN 4 ELSE 8

\* a backoff that does not grow with the attempt
Backoff_Fixed(attempt) == BackoffBase

\* 500 * Math.pow(2, attempt)
Backoff(attempt) == BackoffBase * Pow2(attempt)

\* a retry loop that runs once more
LoopContinues_OffByOne(attempt) == attempt <= maxRetries

\* the loop condition of fetchWithRetry
LoopContinues(attempt) == attempt < maxRetries

\* "Only wait before retrying if this is not the last attempt"
WaitsBeforeRetry(attempt) == attempt < maxRetries - 1

\* a lookup that serves only entries past their lifetime
getFromCache_Inverted(key) ==
    IF key \in DOMAIN responseCache
       /\ now - responseCache[key].timestamp > CACHE_DURATION
    THEN responseCache[key].data
    ELSE NoData

\* a lookup that still serves an entry whose age is the lifetime
getFromCache_Inclusive(key) ==
    IF key \in DOMAIN responseCache
       /\ now - responseCache[key].timestamp <= CACHE_DURATION
    THEN responseCache[key].data
    ELSE NoData

\* getFromCache: the data of a valid entry, or NoData
getFromCache(key) ==
    IF key \in DOMAIN responseCache
       /\ now - responseCache[key].timestamp < CACHE_DURATION
    THEN responseCache[key].data
    ELSE NoData

\* a store that stores nothing
addToCache_Dropped(key, data) == responseCache

\* addToCache: the map after set(key, {data, timestamp: Date.now()})
addToCache(key, data) ==
    [k \in DOMAIN responseCache \cup {key} |->
        IF k = key THEN [data |-> data, timestamp |-> now] ELSE responseCache[k]]

\* the lookup of fetchWeatherDataOptimized
getFromOptimizedCache(key) ==
    IF key \in DOMAIN cache
       /\ now - cache[key].timestamp < CACHE_EXPIRATION
    THEN cache[key].data
    ELSE NoData

\* cache.set(cacheKey, { data, timestamp: Date.now() })
setOptimizedCache(key, data) ==
    [k \in DOMAIN cache \cup {key} |->
        IF k = key THEN [data |-> data, timestamp |-> now] ELSE cache[k]]

EmptyMap == [k \in {} |-> 0]

(***************************************************************************)
(* One fetch call.  kind "forecast" is fetchWeatherByCoordinates, which    *)
(* runs fetchWithRetry; kind "optimized" is fetchWeatherDataOptimized.     *)
(*   pc        idle | net (a request is in flight) | wait (backoff timer)  *)
(*             | ok (resolved) | fail (rejected)                           *)
(*   attempt   the loop variable of fetchWithRetry                         *)
(*   lastError the variable of that name                                   *)
(*   timerSet  when the backoff timer was set                              *)
(*   data      the payload the call resolved with                          *)
(*   sent      the latitude of its requests                                *)
(*   surfaced  the errors the call threw to its caller                     *)
(* and, recorded for the properties:                                       *)
(*   net       requests issued; errs: what they threw; delays: the waits   *)
(*   hit       served from the cache; doneAt: when it resolved;            *)
(*   cleared   the caches were cleared after it settled                    *)
(***************************************************************************)
IdleCall ==
    [pc |-> "idle", kind |-> "none", coord |-> 0, unit |-> "none",
     attempt |-> 0, lastError |-> NoError, timerSet |-> 0, data |-> NoData,
     surfaced |-> <<>>, net |-> 0, errs |-> <<>>, delays |-> <<>>,
     hit |-> FALSE, doneAt |-> 0, cleared |-> FALSE, sent |-> 0]

CallKey(c) ==
    IF c.kind = "forecast"
    THEN createCacheKey("forecast", ForecastParams(c.coord, c.unit))
    ELSE OptimizedKey(c.coord, DefaultParams)

RECURSIVE SumFails(_)
SumFails(S) ==
    IF S = {} THEN 0
    ELSE LET p == CHOOSE x \in S : TRUE
         IN  Len(calls[p].errs) + SumFails(S \ {p})

\* requests that have failed so far
Failures == SumFails(Calls)

\* the calls of a session are numbered in the order they are made
NextCall(p) ==
    /\ calls[p].pc = "idle"
    /\ \A q \in Calls : q < p => calls[q].pc # "idle"

InitFetch ==
    /\ now = 0
    /\ responseCache = EmptyMap
    /\ cache = EmptyMap
    /\ calls = [p \in Calls |-> IdleCall]

(***************************************************************************)
(* fetchWeatherByCoordinates(coordinates, unit), up to the first await:    *)
(* the cache lookup of fetchWithRetry and, on a miss, the first axios.get. *)
(* On a hit the cached payload is mapped and returned.                     *)
(***************************************************************************)
FetchForecast(p, coord, unit) ==
    /\ NextCall(p)
    /\ LET key == createCacheKey("forecast", ForecastParams(coord, unit))
           cachedData == getFromCache(key)
           c == [calls[p] EXCEPT !.kind = "forecast", !.coord = coord, !.unit = unit]
       IN  calls' = [calls EXCEPT ![p] =
                IF cachedData # NoData
                THEN [c EXCEPT !.pc = "ok", !.data = cachedData, !.hit = TRUE,
                               !.doneAt = now]
                ELSE IF LoopContinues(c.attempt)
                THEN [c EXCEPT !.pc = "net", !.net = 1,
                               !.sent = ForecastParams(coord, unit).latitude]
                ELSE [c EXCEPT !.pc = "fail",
                               !.surfaced = Append(c.surfaced, GenericFailure)]]
    /\ UNCHANGED <<now, responseCache, cache>>
    /\ UNCHANGED outsideFetch

\* axios.get resolves: the response is cached, mapped and returned
ForecastResponse(p) ==
    /\ calls[p].pc = "net"
    /\ calls[p].kind = "forecast"
    /\ LET data == Payload(p, calls[p].attempt)
       IN  /\ responseCache' = addToCache(CallKey(calls[p]), data)
           /\ calls' = [calls EXCEPT ![p] =
                    [calls[p] EXCEPT !.pc = "ok", !.data = data, !.doneAt = now]]
    /\ UNCHANGED <<now, cache>>
    /\ UNCHANGED outsideFetch

\* a catch block that keeps the first error instead of the last
CatchError_KeepFirst(c, err) ==
    [c EXCEPT !.lastError = IF c.lastError = NoError THEN err ELSE c.lastError,
              !.errs = Append(c.errs, err)]

\* lastError = error
CatchError(c, err) ==
    [c EXCEPT !.lastError = err, !.errs = Append(c.errs, err)]

\* the loop of fetchWithRetry is left: throw lastError, which
\* fetchWeatherByCoordinates catches, logs and replaces by its own Error
ThrowLast(c) ==
    [c EXCEPT !.pc = "fail", !.surfaced = Append(c.surfaced, GenericFailure)]

\* axios.get throws: the catch block of fetchWithRetry; after the last
\* attempt no timer is set, attempt++ ends the loop and lastError is thrown
ForecastError(p) ==
    /\ calls[p].pc = "net"
    /\ calls[p].kind = "forecast"
    /\ Failures < MaxFailures
    /\ LET c == CatchError(calls[p], UpstreamError(p, calls[p].attempt))
           n == [c EXCEPT !.attempt = c.attempt + 1]
       IN  calls' = [calls EXCEPT ![p] =
                IF WaitsBeforeRetry(c.attempt)
                THEN [c EXCEPT !.pc = "wait", !.timerSet = now,
                               !.delays = Append(c.delays, Backoff(c.attempt))]
                ELSE IF LoopContinues(n.attempt)
                THEN [n EXCEPT !.pc = "net", !.net = n.net + 1]
                ELSE ThrowLast(n)]
    /\ UNCHANGED <<now, responseCache, cache>>
    /\ UNCHANGED outsideFetch

\* the backoff timer fires: attempt++, the loop condition, the next axios.get
BackoffElapsed(p) ==
    /\ calls[p].pc = "wait"
    /\ now >= calls[p].timerSet + Backoff(calls[p].attempt)
    /\ LET n == [calls[p] EXCEPT !.attempt = calls[p].attempt + 1]
       IN  calls' = [calls EXCEPT ![p] =
                IF LoopContinues(n.attempt)
                THEN [n EXCEPT !.pc = "net", !.net = n.net + 1]
                ELSE ThrowLast(n)]
    /\ UNCHANGED <<now, responseCache, cache>>
    /\ UNCHANGED outsideFetch

(***************************************************************************)
(* fetchWeatherDataOptimized(latitude, longitude, params)                  *)
(***************************************************************************)
FetchOptimized(p, coord) ==
    /\ NextCall(p)
    /\ LET cached == getFromOptimizedCache(OptimizedKey(coord, DefaultParams))
           c == [calls[p] EXCEPT !.kind = "optimized", !.coord = coord]
       IN  calls' = [calls EXCEPT ![p] =
                IF cached # NoData
                THEN [c EXCEPT !.pc = "ok", !.data = cached, !.hit = TRUE, !.doneAt = now]
                ELSE [c EXCEPT !.pc = "net", !.net = 1, !.sent = toFixed2(coord)]]
    /\ UNCHANGED <<now, responseCache, cache>>
    /\ UNCHANGED outsideFetch

\* fetch resolved with response.ok and a body that parses
OptimizedResponse(p) ==
    /\ calls[p].pc = "net"
    /\ calls[p].kind = "optimized"
    /\ LET data == Payload(p, 0)
       IN  /\ cache' = setOptimizedCache(CallKey(calls[p]), data)
           /\ calls' = [calls EXCEPT ![p] =
                    [calls[p] EXCEPT !.pc = "ok", !.data = data, !.doneAt = now]]
    /\ UNCHANGED <<now, responseCache>>
    /\ UNCHANGED outsideFetch

\* fetch rejected, or !response.ok: the error is logged and rethrown
OptimizedError(p) ==
    /\ calls[p].pc = "net"
    /\ calls[p].kind = "optimized"
    /\ Failures < MaxFailures
    /\ LET err == UpstreamError(p, 0)
       IN  calls' = [calls EXCEPT ![p] =
                [calls[p] EXCEPT !.pc = "fail",
                                 !.errs = Append(calls[p].errs, err),
                                 !.surfaced = Append(calls[p].surfaced, err)]]
    /\ UNCHANGED <<now, responseCache, cache>>
    /\ UNCHANGED outsideFetch

(***************************************************************************)
(* clearWeatherCache                                                       *)
(***************************************************************************)
ClearWeatherCache ==
    /\ responseCache # EmptyMap \/ cache # EmptyMap
    /\ responseCache' = EmptyMap
    /\ cache' = EmptyMap
    /\ calls' = [p \in Calls |->
            IF calls[p].pc = "ok"
            THEN [calls[p] EXCEPT !.cleared = TRUE] ELSE calls[p]]
    /\ UNCHANGED now
    /\ UNCHANGED outsideFetch

(***************************************************************************)
(* The clock.  Only the instants the code compares Date.now() with matter: *)
(* the end of a backoff wait, and the last millisecond before, the         *)
(* millisecond of and the first after the expiry of a cache entry.  Time   *)
(* passes only while a call can still observe it.                          *)
(***************************************************************************)
Instants ==
    {calls[p].timerSet + Backoff(calls[p].attempt) : p \in {q \in Calls : calls[q].pc = "wait"}}
    \cup {responseCache[k].timestamp + CACHE_DURATION + d :
            k \in DOMAIN responseCache, d \in {-1, 0, 1}}
    \cup {cache[k].timestamp + CACHE_EXPIRATION + d :
            k \in DOMAIN cache, d \in {-1, 0, 1}}

MaxClock == CACHE_DURATION + MaxLate * BackoffBase

Advance ==
    /\ \E p \in Calls : calls[p].pc \in {"idle", "wait"}
    /\ \E t \in Instants : t > now /\ t <= MaxClock /\ now' = t
    /\ UNCHANGED <<responseCache, cache, calls>>
    /\ UNCHANGED outsideFetch

NextFetch ==
    \/ \E p \in Calls, r \in ForecastRequests : FetchForecast(p, r[1], r[2])
    \/ \E p \in Calls : ForecastResponse(p)
    \/ \E p \in Calls : ForecastError(p)
    \/ \E p \in Calls : BackoffElapsed(p)
    \/ \E p \in Calls, coord \in Coords : FetchOptimized(p, coord)
    \/ \E p \in Calls : OptimizedResponse(p)
    \/ \E p \in Calls : OptimizedError(p)
    \/ ClearWeatherCache
    \/ Advance


(***************************************************************************)
(* Location layer: location-utils (the hook useLocationData and its        *)
(* helpers), LocationContext (the provider) and the "remember location"    *)
(* switch of the Settings page.                                            *)
(* Coordinates of this layer are pairs of integers in 1/10000 degree.      *)
(***************************************************************************)
K_REMEMBER == "fg-weather-remember-location"
K_COORDS == "fg-weather-coordinates"
K_NAME == "fg-weather-location-name"
K_CURRENT == "fg-weather-is-current-location"
LocationKeys == {K_REMEMBER, K_COORDS, K_NAME, K_CURRENT}
\* the other keys the handlers of the Settings page touch
K_UNIT == "fg-weather-unit"
K_THEME == "fg-weather-theme"
K_BOOKMARKS == "fg-weather-bookmarked-news"
K_LEGACY == "fg-weather-location"
K_APIFAILED == "fg-weather-api-failed-date"
OtherKeys == {K_UNIT, K_THEME, K_BOOKMARKS, K_LEGACY, K_APIFAILED}
StorageKeys == LocationKeys \cup OtherKeys

\* localStorage.getItem: null is <<>>, a value v is <<v>>
getItem(k) == storage[k]
setItem(st, k, v) == [st EXCEPT ![k] = <<v>>]
removeItem(st, k) == [st EXCEPT ![k] = <<>>]

\* JSON.stringify({latitude, longitude}): the text, token by token
JSONstringify(lat, lon) == <<"{", "latitude", lat, "longitude", lon, "}">>
\* whether JSON.parse accepts the text (it throws a SyntaxError otherwise)
IsJSON(text) == Len(text) = 6 /\ text[1] = "{" /\ text[6] = "}"
\* JSON.parse of a text it accepts
JSONparse(text) == [latitude |-> text[3], longitude |-> text[5]]
\* a text cut short, which JSON.parse rejects: {"latitude":51.5074
TruncatedText == SubSeq(JSONstringify(515074, -1278), 1, 3)

\* boolean.toString()
BoolToString(b) == IF b THEN "true" ELSE "false"

LocationDataOf(lat, lon, name, current) ==
    [latitude |-> lat, longitude |-> lon, name |-> name, isCurrentLocation |-> current]

\* a default that claims to be the current location
getDefaultLocation_Current ==
    LocationDataOf(31390, 1016869, "Kuala Lumpur, Malaysia", TRUE)

\* getDefaultLocation
getDefaultLocation ==
    LocationDataOf(31390, 1016869, "Kuala Lumpur, Malaysia", FALSE)

\* the positions the platform reports, and the places the user picks
Positions == {[latitude |-> 31200, longitude |-> 1016700]}
ManualLocations == {LocationDataOf(356762, 1396503, "Tokyo", FALSE)}
\* what getLocationNameFromCoords resolves with for a position: the name the
\* provider gives, or the "Location (lat, lon)" fallback
NamesOf(pos) == {"Bangsar, Kuala Lumpur", "Location (3.1200, 101.6700)"}
\* what getCurrentPosition rejects with
GeoErrors == {"Location detection timed out", "User denied Geolocation"}

\* a getSavedLocation that answers a text JSON.parse rejects with the
\* default location
getSavedLocation_DefaultOnCorrupt(st) ==
    IF st[K_REMEMBER] = <<"true">> /\ st[K_COORDS] # <<>> /\ st[K_NAME] # <<>>
    THEN IF IsJSON(st[K_COORDS][1])
         THEN <<LocationDataOf(JSONparse(st[K_COORDS][1]).latitude,
                               JSONparse(st[K_COORDS][1]).longitude,
                               st[K_NAME][1],
                               st[K_CURRENT] = <<"true">>)>>
         ELSE <<getDefaultLocation>>
    ELSE <<>>

\* getSavedLocation, on the storage st: <<>> is null.  A SyntaxError of
\* JSON.parse is caught and logged, and null is returned
getSavedLocation(st) ==
    IF /\ st[K_REMEMBER] = <<"true">> /\ st[K_COORDS] # <<>> /\ st[K_NAME] # <<>>
       /\ IsJSON(st[K_COORDS][1])
    THEN <<LocationDataOf(JSONparse(st[K_COORDS][1]).latitude,
                          JSONparse(st[K_COORDS][1]).longitude,
                          st[K_NAME][1],
                          st[K_CURRENT] = <<"true">>)>>
    ELSE <<>>

\* a save that writes nothing
saveLocationToStorage_Never(st, loc) == st

\* saveLocationToStorage: the storage after it
saveLocationToStorage(st, loc) ==
    IF st[K_REMEMBER] = <<"true">>
    THEN setItem(setItem(setItem(st,
            K_CURRENT, BoolToString(loc.isCurrentLocation)),
            K_COORDS, JSONstringify(loc.latitude, loc.longitude)),
            K_NAME, loc.name)
    ELSE st

\* a detection that stores the position whatever the preference
StorePosition_Always(st, pos) ==
    setItem(setItem(st, K_CURRENT, "true"),
            K_COORDS, JSONstringify(pos.latitude, pos.longitude))

\* a detection that stores nothing before the name is known
StorePosition_Deferred(st, pos) == st

\* detectUserLocation, after the position arrived: "Store in local storage
\* immediately (will update name later)"
StorePosition(st, pos) ==
    IF st[K_REMEMBER] = <<"true">>
    THEN setItem(setItem(st, K_CURRENT, "true"),
                 K_COORDS, JSONstringify(pos.latitude, pos.longitude))
    ELSE st

\* detectUserLocation, after the name arrived: "Update localStorage with name"
StoreName(st, name) ==
    IF st[K_REMEMBER] = <<"true">> THEN setItem(st, K_NAME, name) ELSE st

(***************************************************************************)
(* The detectUserLocation calls.  Call 0 is the one of initializeLocation; *)
(* calls 1.. are those of refreshCurrentLocation.                          *)
(*   pc       idle | geo (awaiting getCurrentPosition) | name (awaiting    *)
(*            getLocationNameFromCoords) | done | failed                   *)
(*   origin   startup-fg (awaited by initializeLocation) | startup-bg      *)
(*            (not awaited) | refresh                                      *)
(*   pos      the position found                                           *)
(*   closure  `location` as the provider's refreshCurrentLocation sees it  *)
(*   result   what the provider's refreshCurrentLocation resolved with     *)
(*   thrown   what the hook's refreshCurrentLocation threw to the provider *)
(***************************************************************************)
Dets == 0..MaxRefresh
NoPos == [latitude |-> 0, longitude |-> 0]
IdleDet ==
    [pc |-> "idle", origin |-> "none", pos |-> NoPos, closure |-> <<>>,
     result |-> <<>>, thrown |-> <<>>]

EmptyStorage == [k \in StorageKeys |-> <<>>]

\* what an earlier session that remembered loc has left in storage
Remembered(loc) ==
    [k \in StorageKeys |->
        CASE k = K_REMEMBER -> <<"true">>
          [] k = K_COORDS -> <<JSONstringify(loc.latitude, loc.longitude)>>
          [] k = K_NAME -> <<loc.name>>
          [] k = K_CURRENT -> <<BoolToString(loc.isCurrentLocation)>>
          [] OTHER -> <<>>]
SavedManual == Remembered(LocationDataOf(515074, -1278, "London", FALSE))
SavedCurrent == Remembered(LocationDataOf(31200, 1016700, "Bangsar, Kuala Lumpur", TRUE))
\* a remembered place whose coordinate text was cut short
SavedCorrupt == setItem(SavedManual, K_COORDS, TruncatedText)
\* st with the unit, theme and bookmarks an earlier session has stored
WithOtherPreferences(st) ==
    setItem(setItem(setItem(st, K_UNIT, "fahrenheit"), K_THEME, "dark"),
            K_BOOKMARKS, "[]")
\* what page loads find: nothing at all (first visit), or the unit, theme and
\* bookmarks of earlier sessions with one of the states of the preference
LocationStorages ==
    {setItem(EmptyStorage, K_REMEMBER, "true"),
     setItem(EmptyStorage, K_REMEMBER, "false"),
     SavedManual,
     SavedCurrent,
     SavedCorrupt}
InitialStorages ==
    {EmptyStorage} \cup {WithOtherPreferences(st) : st \in LocationStorages}

InitLocation ==
    /\ storage \in InitialStorages
    /\ locationData = <<>>
    /\ isLoading = TRUE
    /\ error = <<>>
    /\ booted = FALSE
    /\ dets = [d \in Dets |-> IdleDet]

\* a startup that awaits the detection even with a saved location
initializeLocation_Blocking ==
    /\ ~booted
    /\ booted' = TRUE
    /\ error' = <<>>
    /\ LET savedLocation == getSavedLocation(storage)
       IN  IF savedLocation # <<>>
           THEN /\ locationData' = savedLocation
                /\ isLoading' = ~savedLocation[1].isCurrentLocation
                /\ dets' = [dets EXCEPT ![0] =
                        IF ~savedLocation[1].isCurrentLocation
                        THEN [IdleDet EXCEPT !.pc = "geo", !.origin = "startup-fg"]
                        ELSE IdleDet]
           ELSE /\ locationData' = locationData
                /\ isLoading' = TRUE
                /\ dets' = [dets EXCEPT ![0] =
                        [IdleDet EXCEPT !.pc = "geo", !.origin = "startup-fg"]]
    /\ UNCHANGED storage
    /\ UNCHANGED outsideLocation

\* initializeLocation, up to its first await: with a saved location, show
\* it, end loading and start the detection in the background unless the
\* saved location was the current one; without one, await the detection
initializeLocation ==
    /\ ~booted
    /\ booted' = TRUE
    /\ error' = <<>>
    /\ LET savedLocation == getSavedLocation(storage)
       IN  IF savedLocation # <<>>
           THEN /\ locationData' = savedLocation
                /\ isLoading' = FALSE
                /\ dets' = [dets EXCEPT ![0] =
                        IF ~savedLocation[1].isCurrentLocation
                        THEN [IdleDet EXCEPT !.pc = "geo", !.origin = "startup-bg"]
                        ELSE IdleDet]
           ELSE /\ locationData' = locationData
                /\ isLoading' = TRUE
                /\ dets' = [dets EXCEPT ![0] =
                        [IdleDet EXCEPT !.pc = "geo", !.origin = "startup-fg"]]
    /\ UNCHANGED storage
    /\ UNCHANGED outsideLocation

\* getCurrentPosition resolves inside detectUserLocation: the geocoding is
\* started and the position is stored
PositionFound(d, pos) ==
    /\ dets[d].pc = "geo"
    /\ dets' = [dets EXCEPT ![d] = [dets[d] EXCEPT !.pc = "name", !.pos = pos]]
    /\ storage' = StorePosition(storage, pos)
    /\ UNCHANGED <<locationData, isLoading, error, booted>>
    /\ UNCHANGED outsideLocation

\* a completion that does not replace a place that was selected
NameFound_KeepsSelection(d, name) ==
    /\ dets[d].pc = "name"
    /\ LET currentLocationData ==
               LocationDataOf(dets[d].pos.latitude, dets[d].pos.longitude, name, TRUE)
       IN  /\ locationData' = IF locationData \in {<<loc>> : loc \in ManualLocations}
                                THEN locationData ELSE <<currentLocationData>>
           /\ storage' = saveLocationToStorage(StoreName(storage, name), currentLocationData)
           /\ dets' = [dets EXCEPT ![d] =
                    [dets[d] EXCEPT !.pc = "done",
                        !.result = IF dets[d].origin = "refresh"
                                   THEN <<currentLocationData>> ELSE <<>>]]
    /\ isLoading' = IF dets[d].origin = "startup-bg" THEN isLoading ELSE FALSE
    /\ UNCHANGED <<error, booted>>
    /\ UNCHANGED outsideLocation

\* getLocationNameFromCoords resolves: detectUserLocation stores the name
\* and returns, and its caller shows and saves the location
NameFound(d, name) ==
    /\ dets[d].pc = "name"
    /\ LET currentLocationData ==
               LocationDataOf(dets[d].pos.latitude, dets[d].pos.longitude, name, TRUE)
       IN  /\ locationData' = <<currentLocationData>>
           /\ storage' = saveLocationToStorage(StoreName(storage, name), currentLocationData)
           /\ dets' = [dets EXCEPT ![d] =
                    [dets[d] EXCEPT !.pc = "done",
                        !.result = IF dets[d].origin = "refresh"
                                   THEN <<currentLocationData>> ELSE <<>>]]
    /\ isLoading' = IF dets[d].origin = "startup-bg" THEN isLoading ELSE FALSE
    /\ UNCHANGED <<error, booted>>
    /\ UNCHANGED outsideLocation

\* the provider's catch block: "If we have a location already, keep using
\* it.  Otherwise fall back to default" (updateLocation(defaultLocation))
ProviderFallback(closure) ==
    IF closure = <<>>
    THEN /\ locationData' = <<getDefaultLocation>>
         /\ storage' = saveLocationToStorage(storage, getDefaultLocation)
    ELSE UNCHANGED <<locationData, storage>>

\* getCurrentPosition rejects: detectUserLocation rethrows.  The background
\* call only logs; initializeLocation sets the error and the default
\* location; refreshCurrentLocation sets the error and rethrows to the
\* provider, which falls back
PositionFailed(d, err) ==
    /\ dets[d].pc = "geo"
    /\ CASE dets[d].origin = "startup-bg" ->
                /\ dets' = [dets EXCEPT ![d] = [dets[d] EXCEPT !.pc = "failed"]]
                /\ UNCHANGED <<locationData, storage, isLoading, error>>
         [] dets[d].origin = "startup-fg" ->
                /\ dets' = [dets EXCEPT ![d] = [dets[d] EXCEPT !.pc = "failed"]]
                /\ error' = <<err>>
                /\ locationData' = <<getDefaultLocation>>
                /\ isLoading' = FALSE
                /\ UNCHANGED storage
         [] OTHER ->
                /\ error' = <<err>>
                /\ isLoading' = FALSE
                /\ ProviderFallback(dets[d].closure)
                /\ dets' = [dets EXCEPT ![d] =
                        [dets[d] EXCEPT !.pc = "failed", !.thrown = <<err>>,
                            !.result = IF dets[d].closure = <<>>
                                       THEN <<getDefaultLocation>>
                                       ELSE dets[d].closure]]
    /\ UNCHANGED booted
    /\ UNCHANGED outsideLocation

\* the provider's updateLocation (a place picked in a search box):
\* setLocationData and saveLocationToStorage
UpdateLocation(loc) ==
    /\ booted
    /\ locationData # <<loc>>
    /\ locationData' = <<loc>>
    /\ storage' = saveLocationToStorage(storage, loc)
    /\ UNCHANGED <<isLoading, error, booted, dets>>
    /\ UNCHANGED outsideLocation

\* the provider's refreshCurrentLocation, up to its first await
RefreshCurrentLocation(d) ==
    /\ booted
    /\ d # 0
    /\ dets[d].pc = "idle"
    /\ \A e \in Dets : (0 < e /\ e < d) => dets[e].pc # "idle"
    /\ isLoading' = TRUE
    /\ dets' = [dets EXCEPT ![d] =
            [IdleDet EXCEPT !.pc = "geo", !.origin = "refresh", !.closure = locationData]]
    /\ UNCHANGED <<storage, locationData, error, booted>>
    /\ UNCHANGED outsideLocation

\* a switch that, switched off, removes the unit as well
ToggleRememberLocation_ClearsUnit(checked) ==
    /\ booted
    /\ checked = (getItem(K_REMEMBER) # <<"true">>)
    /\ storage' =
            IF checked
            THEN setItem(storage, K_REMEMBER, "true")
            ELSE removeItem(removeItem(removeItem(removeItem(
                    setItem(storage, K_REMEMBER, "false"),
                    K_COORDS), K_NAME), K_CURRENT), K_UNIT)
    /\ UNCHANGED <<locationData, isLoading, error, booted, dets>>
    /\ UNCHANGED outsideLocation

\* handleToggleRememberLocation(checked), checked being the opposite of
\* what the switch shows
ToggleRememberLocation(checked) ==
    /\ booted
    /\ checked = (getItem(K_REMEMBER) # <<"true">>)
    /\ storage' =
            IF checked
            THEN setItem(storage, K_REMEMBER, "true")
            ELSE removeItem(removeItem(removeItem(
                    setItem(storage, K_REMEMBER, "false"),
                    K_COORDS), K_NAME), K_CURRENT)
    /\ UNCHANGED <<locationData, isLoading, error, booted, dets>>
    /\ UNCHANGED outsideLocation

\* clearAppData, the dialog confirmed: five keys are removed and both
\* weather caches are cleared (the reload it schedules is Reload)
ClearAppData ==
    /\ booted
    /\ storage' = removeItem(removeItem(removeItem(removeItem(removeItem(storage,
            K_LEGACY), K_UNIT), K_BOOKMARKS), K_REMEMBER), K_APIFAILED)
    /\ responseCache' = EmptyMap
    /\ cache' = EmptyMap
    /\ calls' = [p \in Calls |->
            IF calls[p].pc = "ok" THEN [calls[p] EXCEPT !.cleared = TRUE] ELSE calls[p]]
    /\ UNCHANGED now
    /\ UNCHANGED <<locationData, isLoading, error, booted, dets>>
    /\ UNCHANGED <<resolverVars, geocodeVars, normalizeVars, searchVars>>

\* window.location.reload(): the page starts again, the provider is not
\* mounted yet, what was in flight is gone; localStorage stays
Reload ==
    /\ booted
    /\ booted' = FALSE
    /\ locationData' = <<>>
    /\ isLoading' = TRUE
    /\ error' = <<>>
    /\ dets' = [d \in Dets |-> IdleDet]
    /\ UNCHANGED storage
    /\ UNCHANGED outsideLocation

NextLocation ==
    \/ initializeLocation
    \/ ClearAppData
    \/ Reload
    \/ \E d \in Dets, pos \in Positions : PositionFound(d, pos)
    \/ \E d \in Dets : \E name \in NamesOf(dets[d].pos) : NameFound(d, name)
    \/ \E d \in Dets, err \in GeoErrors : PositionFailed(d, err)
    \/ \E loc \in ManualLocations : UpdateLocation(loc)
    \/ \E d \in Dets : RefreshCurrentLocation(d)
    \/ \E checked \in BOOLEAN : ToggleRememberLocation(checked)

(***************************************************************************)
(* Geolocation resolver: getCurrentPosition of location-utils and          *)
(* getCurrentLocation of weather-api.  Each call arms a timer and asks the *)
(* platform (navigator.geolocation.getCurrentPosition) for a position; the *)
(* platform answers with a position, with an error, or not at all.         *)
(***************************************************************************)
\* number of resolver calls made in one session
MaxResolves == 1
Resolves == 1..MaxResolves
\* "Extra second for buffer"
TIMER_BUFFER == 1000
\* the default timeout of getCurrentPosition
DEFAULT_TIMEOUT == 10000
\* the timer of getCurrentLocation
LOCATION_TIMER == 10000
\* the timeouts a caller configures: detectUserLocation's, the default,
\* and a longer one
Timeouts == {5000, DEFAULT_TIMEOUT, 30000}
ResolverFns == {"getCurrentPosition", "getCurrentLocation"}
\* GeolocationPositionError.code
PERMISSION_DENIED == 1
POSITION_UNAVAILABLE == 2
TIMEOUT == 3
PlatformErrors == {PERMISSION_DENIED, POSITION_UNAVAILABLE, TIMEOUT}
PlatformPosition == [latitude |-> 31200, longitude |-> 1016700]

\* { ...defaultOptions, ...options }.timeout: <<>> is "no timeout given"
geolocationTimeout(fn, option) ==
    IF fn = "getCurrentLocation" THEN 10000
    ELSE IF option = <<>> THEN DEFAULT_TIMEOUT ELSE option[1]

\* a timer shorter than the timeout it guards
TimerDelay_Short(fn, timeout) == timeout - TIMER_BUFFER

\* the delay handed to setTimeout
TimerDelay(fn, timeout) ==
    IF fn = "getCurrentPosition" THEN timeout + TIMER_BUFFER ELSE LOCATION_TIMER

\* the rejection of the timer
TimerRejection(fn) ==
    [kind |-> "rejected",
     value |-> IF fn = "getCurrentPosition"
               THEN "Location detection timed out"
               ELSE "Location request timed out. Please try again."]

\* the rejection when navigator.geolocation is missing
UnsupportedRejection(fn) ==
    [kind |-> "rejected",
     value |-> IF fn = "getCurrentPosition"
               THEN "Geolocation is not supported by this browser"
               ELSE "Geolocation is not supported by your browser."]

\* what the success callback resolves with
PositionResolution(fn, pos) == [kind |-> "resolved", value |-> pos]

\* what the error callback rejects with: getCurrentPosition hands the
\* platform's error on, getCurrentLocation makes a message of its code
ErrorRejection(fn, code) ==
    [kind |-> "rejected",
     value |-> IF fn = "getCurrentPosition" THEN [code |-> code]
               ELSE IF code = PERMISSION_DENIED
                    THEN "Location access was denied. Please enable location services."
               ELSE IF code = POSITION_UNAVAILABLE
                    THEN "Location information is unavailable. Please try again later."
               ELSE "Location request timed out. Please try again."]

\* a clearTimeout that clears nothing
clearTimeout_Noop(timer) == timer

\* clearTimeout(timeoutId): an armed timer is cleared, a timer that has
\* fired stays fired
clearTimeout(timer) == IF timer = "armed" THEN "cleared" ELSE timer

\* resolve(..) / reject(..) of the promise of call r: the first one settles
\* it, later ones have no effect
Settle(r, outcome) ==
    IF r.outcome = <<>>
    THEN [r EXCEPT !.outcome = <<outcome>>, !.settledAt = now,
                   !.settlements = Append(r.settlements, outcome),
                   !.pc = "settled"]
    ELSE r

(***************************************************************************)
(* A resolver call:                                                        *)
(*   pc           idle | pending | settled                                 *)
(*   fn           which of the two functions                               *)
(*   timeout      the timeout handed to the platform                       *)
(*   started      Date.now() at the call                                   *)
(*   timer        none | armed | fired | cleared, and its deadline         *)
(*   invoked      how often the platform was asked                         *)
(*   platform     none | waiting | delivered                               *)
(*   events       the timer firings and platform callbacks, in order, each *)
(*                with the settlement it asked for                         *)
(*   outcome      <<>> or <<the settlement of the promise>>                *)
(*   settlements  the settlements that took effect                         *)
(***************************************************************************)
IdleResolve ==
    [pc |-> "idle", fn |-> "none", timeout |-> 0, started |-> 0,
     timer |-> "none", deadline |-> 0, invoked |-> 0, platform |-> "none",
     events |-> <<>>, outcome |-> <<>>, settlements |-> <<>>, settledAt |-> 0]

InitResolver == resolves = [r \in Resolves |-> IdleResolve]

NextResolve(r) ==
    resolves[r].pc = "idle" /\ \A q \in Resolves : q < r => resolves[q].pc # "idle"

\* the call, in a browser without navigator.geolocation
ResolveUnsupported(r, fn) ==
    /\ NextResolve(r)
    /\ resolves' = [resolves EXCEPT ![r] =
            Settle([IdleResolve EXCEPT !.fn = fn, !.started = now],
                   UnsupportedRejection(fn))]
    /\ UNCHANGED <<now, responseCache, cache, calls>>
    /\ UNCHANGED outsideResolver

\* the call: the timer is armed, the platform is asked
Resolve(r, fn, option) ==
    /\ NextResolve(r)
    /\ LET timeout == geolocationTimeout(fn, option)
       IN  resolves' = [resolves EXCEPT ![r] =
                [IdleResolve EXCEPT !.pc = "pending", !.fn = fn,
                    !.timeout = timeout, !.started = now,
                    !.timer = "armed", !.deadline = now + TimerDelay(fn, timeout),
                    !.invoked = 1, !.platform = "waiting"]]
    /\ UNCHANGED <<now, responseCache, cache, calls>>
    /\ UNCHANGED outsideResolver

\* the timer callback
TimeoutElapsed(r) ==
    /\ resolves[r].timer = "armed"
    /\ now >= resolves[r].deadline
    /\ resolves' = [resolves EXCEPT ![r] =
            Settle([resolves[r] EXCEPT !.timer = "fired",
                        !.events = Append(@, [by |-> "timer",
                                              asked |-> TimerRejection(resolves[r].fn)])],
                   TimerRejection(resolves[r].fn))]
    /\ UNCHANGED <<now, responseCache, cache, calls>>
    /\ UNCHANGED outsideResolver

\* the platform's success callback
PlatformSuccess(r) ==
    /\ resolves[r].platform = "waiting"
    /\ resolves' = [resolves EXCEPT ![r] =
            Settle([resolves[r] EXCEPT !.timer = clearTimeout(@),
                        !.platform = "delivered",
                        !.events = Append(@, [by |-> "platform",
                            asked |-> PositionResolution(resolves[r].fn, PlatformPosition)])],
                   PositionResolution(resolves[r].fn, PlatformPosition))]
    /\ UNCHANGED <<now, responseCache, cache, calls>>
    /\ UNCHANGED outsideResolver

\* the platform's error callback
PlatformError(r, code) ==
    /\ resolves[r].platform = "waiting"
    /\ resolves' = [resolves EXCEPT ![r] =
            Settle([resolves[r] EXCEPT !.timer = clearTimeout(@),
                        !.platform = "delivered",
                        !.events = Append(@, [by |-> "platform",
                            asked |-> ErrorRejection(resolves[r].fn, code)])],
                   ErrorRejection(resolves[r].fn, code))]
    /\ UNCHANGED <<now, responseCache, cache, calls>>
    /\ UNCHANGED outsideResolver

\* the instants the resolver can tell apart: the platform's timeout and the
\* deadline of each timer, and the millisecond before and after each
ResolverInstants ==
    {resolves[r].started + resolves[r].timeout + d :
            r \in {q \in Resolves : resolves[q].pc # "idle"}, d \in {-1, 0, 1}}
    \cup {resolves[r].deadline + d :
            r \in {q \in Resolves : resolves[q].timer # "none"}, d \in {-1, 0, 1}}

\* time passes, but not past the deadline of an armed timer: the event loop
\* runs a timer callback when it is due
AdvanceResolver ==
    /\ \E r \in Resolves : resolves[r].pc = "idle" \/ resolves[r].platform = "waiting"
    /\ \E t \in ResolverInstants :
            /\ t > now
            /\ \A r \in Resolves : resolves[r].timer = "armed" => t <= resolves[r].deadline
            /\ now' = t
    /\ UNCHANGED <<responseCache, cache, calls, resolves>>
    /\ UNCHANGED outsideResolver

NextResolver ==
    \/ \E r \in Resolves, fn \in ResolverFns : ResolveUnsupported(r, fn)
    \/ \E r \in Resolves, option \in {<<>>} \cup {<<t>> : t \in Timeouts} :
            Resolve(r, "getCurrentPosition", option)
    \/ \E r \in Resolves : Resolve(r, "getCurrentLocation", <<>>)
    \/ \E r \in Resolves : TimeoutElapsed(r)
    \/ \E r \in Resolves : PlatformSuccess(r)
    \/ \E r \in Resolves, code \in PlatformErrors : PlatformError(r, code)
    \/ AdvanceResolver

(***************************************************************************)
(* Reverse geocoding: getLocationNameFromCoords of location-utils.         *)
(* Coordinates of this part are integers in units of 1/100000 degree, one  *)
(* decimal more than the 4 the function rounds to; a rounded coordinate is *)
(* an integer in units of 1/10000 degree.                                  *)
(***************************************************************************)
\* number of getLocationNameFromCoords calls made in one session
MaxLookups == 2
Lookups == 1..MaxLookups
\* the coordinates looked up: two that round to the same 4 decimals, one
\* that rounds to another latitude, one in the south-west, and the
\* 4-decimal coordinates the first two and the last one round to
LookupCoords ==
    {<<312001, 10167000>>, <<312004, 10167000>>, <<312006, 10167000>>,
     <<-338688, -15120930>>,
     <<312000, 10167000>>, <<-338690, -15120930>>}

\* a rounding that always goes to the next step
Round4_NextStep(c) == (c \div 10) + 1

\* Math.round(x * 10000) / 10000: halves go up
Round4(c) == (c + 5) \div 10
\* x.toFixed(4): halves go away from zero
toFixed4(c) == IF c >= 0 THEN (c + 5) \div 10 ELSE -((-c + 5) \div 10)

\* a key that keeps every decimal
geocodingKey_Unrounded(lat, lon) == <<lat, lon>>

\* `${roundedLat},${roundedLon}`
geocodingKey(lat, lon) == <<Round4(lat), Round4(lon)>>

\* `Location (${latitude.toFixed(4)}, ${longitude.toFixed(4)})`
FallbackName(lat, lon) == <<"Location (", toFixed4(lat), ", ", toFixed4(lon), ")">>

\* results[0] of the provider: name, and admin3, admin2, admin1, country,
\* each <<>> (absent) or <<text>>
Place(name, admin3, admin2, admin1, country) ==
    [name |-> name, admin3 |-> admin3, admin2 |-> admin2,
     admin1 |-> admin1, country |-> country]
ProviderResults ==
    {Place("Bangsar", <<"Bukit Bandaraya">>, <<"Lembah Pantai">>, <<"Kuala Lumpur">>, <<"Malaysia">>),
     Place("Petaling Jaya", <<>>, <<"Petaling">>, <<"Selangor">>, <<"Malaysia">>),
     Place("Kuala Lumpur", <<>>, <<>>, <<"Kuala Lumpur">>, <<"Malaysia">>),
     Place("Singapore", <<"">>, <<>>, <<>>, <<"Singapore">>),
     Place("Null Island", <<>>, <<>>, <<>>, <<>>)}
\* what makes the request throw: fetch rejects, response.ok is false
ProviderFailures == {"network error", "Failed to fetch location name"}

\* if (result.admin3): a field that is there and not the empty string
Truthy(field) == field # <<>> /\ field[1] # ""

\* a name that prefers the larger division
ComposeName_CountryFirst(result) ==
    IF Truthy(result.country) THEN <<result.name \o ", " \o result.country[1]>>
    ELSE IF Truthy(result.admin1) THEN <<result.name \o ", " \o result.admin1[1]>>
    ELSE IF Truthy(result.admin2) THEN <<result.name \o ", " \o result.admin2[1]>>
    ELSE IF Truthy(result.admin3) THEN <<result.name \o ", " \o result.admin3[1]>>
    ELSE <<result.name>>

\* the location name built from results[0]
ComposeName(result) ==
    IF Truthy(result.admin3) THEN <<result.name \o ", " \o result.admin3[1]>>
    ELSE IF Truthy(result.admin2) THEN <<result.name \o ", " \o result.admin2[1]>>
    ELSE IF Truthy(result.admin1) THEN <<result.name \o ", " \o result.admin1[1]>>
    ELSE IF Truthy(result.country) THEN <<result.name \o ", " \o result.country[1]>>
    ELSE <<result.name>>

\* geocodingCache.set(cacheKey, locationName)
geocodingCacheSet(key, name) ==
    [k \in DOMAIN geocodingCache \cup {key} |->
        IF k = key THEN name ELSE geocodingCache[k]]

(***************************************************************************)
(* A getLocationNameFromCoords call:                                       *)
(*   pc        idle | net (awaiting the provider) | done                   *)
(*   lat, lon  its arguments                                               *)
(*   net       the requests it sent                                        *)
(*   asked     <<>> or <<latitude, longitude>> of its request              *)
(*   answer    none | results | empty | failed: what the provider did      *)
(*   place     results[0], when there was one                              *)
(*   returned  <<>> or <<the name it resolved with>>                       *)
(*   thrown    <<>> or <<the error it rejected with>>                      *)
(*   before    the cache entry of its key when it was called               *)
(***************************************************************************)
NoPlace == Place("", <<>>, <<>>, <<>>, <<>>)
IdleLookup ==
    [pc |-> "idle", lat |-> 0, lon |-> 0, net |-> 0, asked |-> <<>>, answer |-> "none",
     place |-> NoPlace, returned |-> <<>>, thrown |-> <<>>, before |-> <<>>]

InitGeocode ==
    /\ geocodingCache = EmptyMap
    /\ lookups = [l \in Lookups |-> IdleLookup]

NextLookup(l) ==
    lookups[l].pc = "idle" /\ \A q \in Lookups : q < l => lookups[q].pc # "idle"

LookupKey(l) == geocodingKey(lookups[l].lat, lookups[l].lon)

\* the call, up to the await of fetch: a cached name is returned at once
GetLocationNameFromCoords(l, lat, lon) ==
    /\ NextLookup(l)
    /\ LET cacheKey == geocodingKey(lat, lon)
           called == [IdleLookup EXCEPT !.lat = lat, !.lon = lon,
                        !.before = IF cacheKey \in DOMAIN geocodingCache
                                   THEN <<geocodingCache[cacheKey]>> ELSE <<>>]
       IN  lookups' = [lookups EXCEPT ![l] =
                IF cacheKey \in DOMAIN geocodingCache
                THEN [called EXCEPT !.pc = "done",
                                    !.returned = <<geocodingCache[cacheKey]>>]
                ELSE [called EXCEPT !.pc = "net", !.net = 1, !.asked = <<lat, lon>>]]
    /\ UNCHANGED geocodingCache
    /\ UNCHANGED outsideGeocode

\* the provider answers with results: the name is composed, cached, returned
GeocodeResults(l, result) ==
    /\ lookups[l].pc = "net"
    /\ LET locationName == ComposeName(result)
       IN  /\ geocodingCache' = geocodingCacheSet(LookupKey(l), locationName)
           /\ lookups' = [lookups EXCEPT ![l] =
                    [lookups[l] EXCEPT !.pc = "done", !.answer = "results",
                        !.place = result, !.returned = <<locationName>>]]
    /\ UNCHANGED outsideGeocode

\* the provider answers without results: the fallback is cached, returned
GeocodeEmpty(l) ==
    /\ lookups[l].pc = "net"
    /\ LET locationName == FallbackName(lookups[l].lat, lookups[l].lon)
       IN  /\ geocodingCache' = geocodingCacheSet(LookupKey(l), locationName)
           /\ lookups' = [lookups EXCEPT ![l] =
                    [lookups[l] EXCEPT !.pc = "done", !.answer = "empty",
                        !.returned = <<locationName>>]]
    /\ UNCHANGED outsideGeocode

\* a catch block that hands the error on
GeocodeCatch_Rethrow(lookup, err) ==
    [lookup EXCEPT !.pc = "done", !.answer = "failed", !.thrown = <<err>>]

\* the catch block: "Final fallback is just coordinates"
GeocodeCatch(lookup, err) ==
    [lookup EXCEPT !.pc = "done", !.answer = "failed",
        !.returned = <<FallbackName(lookup.lat, lookup.lon)>>]

\* the request fails or is answered with a status that is not ok
GeocodeFailure(l, err) ==
    /\ lookups[l].pc = "net"
    /\ lookups' = [lookups EXCEPT ![l] = GeocodeCatch(lookups[l], err)]
    /\ UNCHANGED geocodingCache
    /\ UNCHANGED outsideGeocode

NextGeocode ==
    \/ \E l \in Lookups, c \in LookupCoords : GetLocationNameFromCoords(l, c[1], c[2])
    \/ \E l \in Lookups, result \in ProviderResults : GeocodeResults(l, result)
    \/ \E l \in Lookups : GeocodeEmpty(l)
    \/ \E l \in Lookups, err \in ProviderFailures : GeocodeFailure(l, err)

(***************************************************************************)
(* The mapping of the provider's forecast response to WeatherData in       *)
(* fetchWeatherByCoordinates.  Every field of WeatherData is copied from   *)
(* one field of one of the three sections of the response in the same way; *)
(* the model keeps the four fields below.  A section or field that is not  *)
(* there (undefined) is <<>>, a value v is <<v>>.                          *)
(***************************************************************************)
\* the values a field of the response holds
FieldValues == {<<>>, <<0>>, <<55>>}
CurrentSections == {<<>>} \cup
    {<<[temperature_2m |-> t, uv_index |-> u]>> : t \in FieldValues, u \in FieldValues}
DailySections == {<<>>} \cup
    {<<[precipitation_probability_max |-> v]>> : v \in FieldValues}
HourlySections == {<<>>} \cup
    {<<[precipitation_probability |-> v]>> : v \in FieldValues}
\* the responses of the provider
ForecastResponses ==
    [current : CurrentSections, daily : DailySections, hourly : HourlySections]

NoWeatherData ==
    [current |-> [temperature |-> <<>>, uvIndex |-> <<>>],
     daily |-> [precipitationProbabilityMax |-> <<>>],
     hourly |-> [precipitationProbability |-> <<>>]]

\* reading a property of a section that is undefined throws a TypeError
Throws(data) == data.current = <<>> \/ data.daily = <<>> \/ data.hourly = <<>>

\* "Map API response to our interface"
MapResponse(data) ==
    [current |-> [temperature |-> data.current[1].temperature_2m,
                  uvIndex |-> data.current[1].uv_index],
     daily |-> [precipitationProbabilityMax |->
                    data.daily[1].precipitation_probability_max],
     hourly |-> [precipitationProbability |->
                    data.hourly[1].precipitation_probability]]

\* a response has arrived and is about to be mapped
InitNormalize ==
    \E data \in ForecastResponses :
        mapping = [pc |-> "received", data |-> data,
                   weatherData |-> NoWeatherData, thrown |-> NoError]

\* the response is mapped and returned
ReturnWeatherData ==
    /\ mapping.pc = "received"
    /\ ~Throws(mapping.data)
    /\ mapping' = [mapping EXCEPT !.pc = "returned",
                                  !.weatherData = MapResponse(mapping.data)]
    /\ UNCHANGED outsideNormalize

\* the mapping throws, and the catch block throws the fixed failure
MappingThrows ==
    /\ mapping.pc = "received"
    /\ Throws(mapping.data)
    /\ mapping' = [mapping EXCEPT !.pc = "failed", !.thrown = GenericFailure]
    /\ UNCHANGED outsideNormalize

NextNormalize ==
    \/ ReturnWeatherData
    \/ MappingThrows

(***************************************************************************)
(* Place search: searchLocation of weather-api and the LocationSearch box  *)
(* that drives it through a debounced call.  A text is the sequence of its *)
(* characters.                                                             *)
(***************************************************************************)
\* number of searchLocation calls made in one session
MaxSearches == 2
\* "query.trim().length < 2" of searchLocation
MIN_QUERY_LENGTH == 2
\* "query.trim().length >= 2" of the effect of LocationSearch
BOX_QUERY_LENGTH == 2

Whitespace == {" "}
\* the texts typed or passed: empty, of whitespace only, of one character
\* with and without whitespace around it, and of two characters with and
\* without whitespace before them
Queries ==
    {<<>>, <<" ">>, <<" ", " ">>, <<"a">>, <<" ", "a", " ">>,
     <<"a", "a">>, <<" ", "a", "a">>}

\* String.prototype.trim
RECURSIVE trimStart(_), trimEnd(_)
trimStart(q) ==
    IF q # <<>> /\ Head(q) \in Whitespace THEN trimStart(Tail(q)) ELSE q
trimEnd(q) ==
    IF q # <<>> /\ q[Len(q)] \in Whitespace
    THEN trimEnd(SubSeq(q, 1, Len(q) - 1)) ELSE q
trim(q) == trimEnd(trimStart(q))

\* a guard that measures the text as typed
ReturnsEarly_Untrimmed(q) == q = <<>> \/ Len(q) < MIN_QUERY_LENGTH

\* searchLocation: "if (!query || query.trim().length < 2) return []"
ReturnsEarly(q) == q = <<>> \/ Len(trim(q)) < MIN_QUERY_LENGTH

\* what the provider may answer to name = q, as searchLocation returns it
\* ("data.results || []"): places that carry the name asked for, or none
SearchResponses(q) == {<<>>, <<[name |-> q]>>}

\* a searchLocation call: by the box or by another caller of the API
\*   pc         fetch (awaiting fetchWithRetry) | done | failed
\*   requested  fetchWithRetry was called
\*   returned   the list the call resolved with
SearchCall(by, q) ==
    [by |-> by, query |-> q,
     pc |-> IF ReturnsEarly(q) THEN "done" ELSE "fetch",
     requested |-> ~ReturnsEarly(q),
     returned |-> <<>>]

InitSearch ==
    /\ query = <<>>
    /\ results = <<>>
    /\ showResults = FALSE
    /\ isSearching = FALSE
    /\ debounced = <<>>
    /\ searches = <<>>

\* the effect of LocationSearch on a change of query to q: the cleanup of
\* the previous run cancels the pending call, then the call is scheduled
\* again or the list is emptied and closed
QueryEffect(q) ==
    IF Len(trim(q)) >= BOX_QUERY_LENGTH
    THEN /\ debounced' = <<q>>
         /\ UNCHANGED <<results, showResults>>
    ELSE /\ debounced' = <<>>
         /\ results' = <<>>
         /\ showResults' = FALSE

\* onChange of the input: setQuery(e.target.value)
TypeQuery(q) ==
    /\ q # query
    /\ query' = q
    /\ QueryEffect(q)
    /\ UNCHANGED <<isSearching, searches>>
    /\ UNCHANGED outsideSearch

\* the pending debounced call runs, 500 ms after the last change or at once
\* by flush() (Enter, the Search button), up to its first await
DebounceFires ==
    /\ debounced # <<>>
    /\ Len(searches) < MaxSearches
    /\ debounced' = <<>>
    /\ LET searchQuery == debounced[1]
       IN  IF trim(searchQuery) = <<>>
           THEN /\ results' = <<>>
                /\ showResults' = FALSE
                /\ UNCHANGED <<isSearching, searches>>
           ELSE /\ searches' = Append(searches, SearchCall("box", searchQuery))
                /\ IF ReturnsEarly(searchQuery)
                   THEN /\ results' = <<>>
                        /\ showResults' = TRUE
                        /\ isSearching' = FALSE
                   ELSE /\ isSearching' = TRUE
                        /\ UNCHANGED <<results, showResults>>
    /\ UNCHANGED query
    /\ UNCHANGED outsideSearch

\* searchLocation called by another caller of the API
SearchLocation(q) ==
    /\ Len(searches) < MaxSearches
    /\ searches' = Append(searches, SearchCall("api", q))
    /\ UNCHANGED <<query, results, showResults, isSearching, debounced>>
    /\ UNCHANGED outsideSearch

\* fetchWithRetry resolves: searchLocation returns the places, and the box
\* lists them and opens the list
SearchResponse(i, places) ==
    /\ searches[i].pc = "fetch"
    /\ searches' = [searches EXCEPT ![i] =
            [searches[i] EXCEPT !.pc = "done", !.returned = places]]
    /\ IF searches[i].by = "box"
       THEN /\ results' = places
            /\ showResults' = TRUE
            /\ isSearching' = FALSE
       ELSE UNCHANGED <<results, showResults, isSearching>>
    /\ UNCHANGED <<query, debounced>>
    /\ UNCHANGED outsideSearch

\* fetchWithRetry rejects: searchLocation throws, and the box shows a toast
\* and empties the list
SearchError(i) ==
    /\ searches[i].pc = "fetch"
    /\ searches' = [searches EXCEPT ![i] = [searches[i] EXCEPT !.pc = "failed"]]
    /\ IF searches[i].by = "box"
       THEN /\ results' = <<>>
            /\ isSearching' = FALSE
            /\ UNCHANGED showResults
       ELSE UNCHANGED <<results, showResults, isSearching>>
    /\ UNCHANGED <<query, debounced>>
    /\ UNCHANGED outsideSearch

\* handleSelectLocation, on a place of the open list
SelectLocation ==
    /\ showResults
    /\ results # <<>>
    /\ query' = <<>>
    /\ results' = <<>>
    /\ showResults' = FALSE
    /\ debounced' = <<>>
    /\ UNCHANGED <<isSearching, searches>>
    /\ UNCHANGED outsideSearch

\* handleClearSearch (the button is there while query is not empty)
ClearSearch ==
    /\ query # <<>>
    /\ query' = <<>>
    /\ results' = <<>>
    /\ showResults' = FALSE
    /\ debounced' = <<>>
    /\ UNCHANGED <<isSearching, searches>>
    /\ UNCHANGED outsideSearch

\* handleClickOutside: the list is closed
ClickOutside ==
    /\ showResults
    /\ showResults' = FALSE
    /\ UNCHANGED <<query, results, isSearching, debounced, searches>>
    /\ UNCHANGED outsideSearch

NextSearch ==
    \/ \E q \in Queries : TypeQuery(q)
    \/ DebounceFires
    \/ \E q \in Queries : SearchLocation(q)
    \/ \E i \in DOMAIN searches :
            \E places \in SearchResponses(searches[i].query) : SearchResponse(i, places)
    \/ \E i \in DOMAIN searches : SearchError(i)
    \/ SelectLocation
    \/ ClearSearch
    \/ ClickOutside

\* the state of the layer a specification leaves alone
FetchIdle == InitFetch
LocationIdle ==
    /\ storage = EmptyStorage
    /\ locationData = <<>>
    /\ isLoading = TRUE
    /\ error = <<>>
    /\ booted = FALSE
    /\ dets = [d \in Dets |-> IdleDet]
ResolverIdle == InitResolver
GeocodeIdle == InitGeocode
NormalizeIdle ==
    mapping = [pc |-> "idle", data |-> [current |-> <<>>, daily |-> <<>>, hourly |-> <<>>],
               weatherData |-> NoWeatherData, thrown |-> NoError]
SearchIdle == InitSearch

\* a session in which only the fetch layer acts
InitFetchSession ==
    InitFetch /\ LocationIdle /\ ResolverIdle /\ GeocodeIdle /\ NormalizeIdle /\ SearchIdle
SpecFetch == InitFetchSession /\ [][NextFetch]_vars

\* a session in which only the location layer acts
InitLocationSession ==
    InitLocation /\ FetchIdle /\ ResolverIdle /\ GeocodeIdle /\ NormalizeIdle /\ SearchIdle
SpecLocation == InitLocationSession /\ [][NextLocation]_vars

\* a session in which only the geolocation resolver acts
InitResolverSession ==
    InitResolver /\ FetchIdle /\ LocationIdle /\ GeocodeIdle /\ NormalizeIdle /\ SearchIdle
SpecResolver == InitResolverSession /\ [][NextResolver]_vars

\* a session in which only the reverse geocoding acts
InitGeocodeSession ==
    InitGeocode /\ FetchIdle /\ LocationIdle /\ ResolverIdle /\ NormalizeIdle /\ SearchIdle
SpecGeocode == InitGeocodeSession /\ [][NextGeocode]_vars

\* the mapping of one response, whatever the response
InitNormalizeSession ==
    InitNormalize /\ FetchIdle /\ LocationIdle /\ ResolverIdle /\ GeocodeIdle /\ SearchIdle
SpecNormalize == InitNormalizeSession /\ [][NextNormalize]_vars

\* a session in which only the place search acts
InitSearchSession ==
    InitSearch /\ FetchIdle /\ LocationIdle /\ ResolverIdle /\ GeocodeIdle /\ NormalizeIdle
SpecSearch == InitSearchSession /\ [][NextSearch]_vars


(***************************************************************************)
(* Properties of the fetch layer (SpecFetch)                               *)
(***************************************************************************)
Forecast(p) == calls[p].kind = "forecast"

\* call p is made in this step: fetchWeatherByCoordinates(coord, unit)
StartsForecast(p) ==
    calls[p].pc = "idle" /\ calls'[p].pc # "idle" /\ calls'[p].kind = "forecast"

\* call q fetched its payload from the network and resolved less than the
\* TTL ago, for the (coordinate, unit) call p is being made with
FreshResultFor(q, p) ==
    /\ Forecast(q) /\ calls[q].pc = "ok" /\ ~calls[q].hit
    /\ calls[q].coord = calls'[p].coord /\ calls[q].unit = calls'[p].unit
    /\ now - calls[q].doneAt < CACHE_DURATION

\* call p is answered in this step from the response cache
ServedFromCache(p) ==
    /\ calls'[p].pc = "ok" /\ calls'[p].hit /\ calls'[p].net = 0
    /\ CallKey(calls'[p]) \in DOMAIN responseCache
    /\ calls'[p].data = responseCache[CallKey(calls'[p])].data

\* C1 as stated: after a fetchForecast call for a (coordinate, unit) has
\* completed successfully, every later call with the same (coordinate, unit)
\* that starts within the TTL of that result returns the cached payload and
\* issues no network call, and the two calls together issue at most one
\* network call.
C1_AsStated ==
    [][\A p \in Calls, q \in Calls :
        (StartsForecast(p) /\ FreshResultFor(q, p))
            => (ServedFromCache(p) /\ calls[q].net + calls'[p].net <= 1)]_vars

\* C1 as amended: ... that starts within the TTL of that result, the caches
\* not having been cleared in between, returns the cached payload and issues
\* no network call; the two calls together issue only the network calls of
\* the first, one per attempt it needed, at most 3.
C1_CacheHit ==
    [][\A p \in Calls, q \in Calls :
        (StartsForecast(p) /\ FreshResultFor(q, p) /\ ~calls[q].cleared)
            => /\ ServedFromCache(p)
               /\ calls[q].net + calls'[p].net = Len(calls[q].errs) + 1
               /\ calls[q].net + calls'[p].net <= 3]_vars

\* a second call was served the payload the first one fetched on a retry
C1_Witness ==
    \E p \in Calls, q \in Calls :
        /\ q < p /\ Forecast(p) /\ Forecast(q)
        /\ calls[q].pc = "ok" /\ ~calls[q].hit /\ calls[q].net = 2
        /\ calls[p].pc = "ok" /\ calls[p].hit /\ calls[p].net = 0
        /\ calls[p].coord = calls[q].coord /\ calls[p].unit = calls[q].unit
        /\ calls[p].data = calls[q].data
        /\ calls[p].doneAt = calls[q].doneAt + CACHE_DURATION - 1

InFlight(p) == calls[p].pc \in {"net", "wait"}

\* C2: two fetch calls with the same cache key that overlap in time (the
\* second starts before the response of the first has arrived and been
\* cached) issue at most one network request between them.
C2_Deduplicated ==
    \A p \in Calls, q \in Calls :
        (p # q /\ InFlight(p) /\ InFlight(q)
         /\ calls[p].kind = calls[q].kind
         /\ CallKey(calls[p]) = CallKey(calls[q]))
            => calls[p].net + calls[q].net <= 1

\* C3: one fetchForecast call never makes more than 3 network attempts; it
\* makes exactly 3 when every attempt fails; an attempt after the first is
\* made only after the previous one threw, and the first attempt that
\* succeeds ends the call with its response.
C3_Attempts ==
    \A p \in Calls : Forecast(p) =>
        /\ calls[p].net <= 3
        /\ (calls[p].pc = "fail" => calls[p].net = 3 /\ Len(calls[p].errs) = 3)
        /\ (calls[p].pc = "net" => calls[p].net = Len(calls[p].errs) + 1)
        /\ (calls[p].pc = "wait" => calls[p].net = Len(calls[p].errs))
        /\ (calls[p].pc = "ok" /\ ~calls[p].hit =>
                /\ calls[p].net = Len(calls[p].errs) + 1
                /\ calls[p].data = Payload(p, calls[p].net - 1))

\* a call has given up after its third attempt
C3_Witness ==
    \E p \in Calls :
        Forecast(p) /\ calls[p].pc = "fail" /\ calls[p].net = 3 /\ calls[p].delays # <<>>

\* C4 as stated: on persistent failure the waits between the attempts of one
\* call are 500 ms, 1000 ms and 2000 ms.
C4_AsStated ==
    \A p \in Calls :
        (Forecast(p) /\ calls[p].pc = "fail") => calls[p].delays = <<500, 1000, 2000>>

\* the backoff timer of call p fires in this step
TimerFires(p) == calls[p].pc = "wait" /\ calls'[p].pc # "wait"

\* C4 as amended: the wait set after failed attempt number a (from 0) is
\* 500 ms * 2^a; a call whose 3 attempts all fail waits twice, 500 ms after
\* the first and 1000 ms after the second attempt, each wait lasting at least
\* that long, and no wait follows the final attempt (a 2000 ms wait never
\* occurs).
C4_Backoff ==
    /\ [](\A p \in Calls : Forecast(p) =>
            /\ Len(calls[p].delays) <= 2
            /\ (Len(calls[p].delays) >= 1 => calls[p].delays[1] = 500)
            /\ (Len(calls[p].delays) = 2 => calls[p].delays[2] = 1000)
            /\ (calls[p].pc = "wait" => Len(calls[p].delays) = Len(calls[p].errs))
            /\ (calls[p].pc = "fail" => calls[p].delays = <<500, 1000>>))
    /\ [][\A p \in Calls : TimerFires(p) =>
            now - calls[p].timerSet >= calls[p].delays[Len(calls[p].delays)]]_vars

\* every attempt of a call has failed, and its second wait ended late
C4_Witness ==
    \E p \in Calls :
        /\ Forecast(p) /\ calls[p].pc = "fail"
        /\ Len(calls[p].errs) = 3 /\ Len(calls[p].delays) = 2
        /\ now > 1500

\* C5 as stated: when every attempt of a fetchForecast call fails, the caller
\* receives exactly one failure, which carries the message of the last
\* upstream error.
C5_AsStated ==
    \A p \in Calls :
        (Forecast(p) /\ calls[p].pc = "fail") =>
            /\ Len(calls[p].surfaced) = 1
            /\ calls[p].surfaced[1].message = calls[p].errs[Len(calls[p].errs)].message

\* C5 as amended: when every attempt fails, the caller receives exactly one
\* failure (none while attempts are still being made); fetchWithRetry throws
\* the last upstream error, and fetchWeatherByCoordinates replaces it by an
\* Error with the fixed message "Failed to fetch weather data. Please check
\* your connection and try again.".
C5_OneFailure ==
    \A p \in Calls : Forecast(p) =>
        /\ (calls[p].pc = "fail" =>
                /\ calls[p].surfaced = <<GenericFailure>>
                /\ calls[p].lastError = calls[p].errs[Len(calls[p].errs)]
                /\ calls[p].lastError = UpstreamError(p, 2))
        /\ (calls[p].pc # "fail" => calls[p].surfaced = <<>>)

\* a call failed after three upstream errors
C5_Witness ==
    \E p \in Calls :
        /\ Forecast(p) /\ calls[p].pc = "fail"
        /\ calls[p].errs = <<UpstreamError(p, 0), UpstreamError(p, 1), UpstreamError(p, 2)>>

\* a request of call p throws in this step
AttemptFails(p) == Len(calls'[p].errs) > Len(calls[p].errs)

\* a request of call p is answered in this step
AttemptSucceeds(p) == calls[p].pc = "net" /\ calls'[p].pc = "ok"

\* some call fetched the entry's payload from the network under key k
FetchedFor(k, kind, entry) ==
    \E p \in Calls :
        /\ calls[p].kind = kind /\ calls[p].pc = "ok" /\ ~calls[p].hit
        /\ CallKey(calls[p]) = k
        /\ calls[p].data = entry.data

\* C6: a failing attempt, and so a fetch whose attempts all fail, leaves the
\* weather response caches unchanged; every fetch that succeeds stores its
\* payload under the key of its request; at every moment a cache holds an
\* entry for a key only if a network call for that key has succeeded.
C6_OnlySuccessesCached ==
    /\ [](/\ \A k \in DOMAIN responseCache : FetchedFor(k, "forecast", responseCache[k])
          /\ \A k \in DOMAIN cache : FetchedFor(k, "optimized", cache[k]))
    /\ [][\A p \in Calls :
            /\ AttemptFails(p) => UNCHANGED <<responseCache, cache>>
            /\ (AttemptSucceeds(p) /\ Forecast(p)) =>
                    /\ CallKey(calls[p]) \in DOMAIN responseCache'
                    /\ responseCache'[CallKey(calls[p])] =
                            [data |-> calls'[p].data, timestamp |-> now]
            /\ (AttemptSucceeds(p) /\ ~Forecast(p)) =>
                    /\ CallKey(calls[p]) \in DOMAIN cache'
                    /\ cache'[CallKey(calls[p])] =
                            [data |-> calls'[p].data, timestamp |-> now]]_vars

\* one fetch has failed on every attempt while the cache holds what another
\* fetch stored
C6_Witness ==
    \E p \in Calls, q \in Calls :
        /\ Forecast(p) /\ calls[p].pc = "fail" /\ Len(calls[p].errs) = 3
        /\ Forecast(q) /\ calls[q].pc = "ok" /\ ~calls[q].hit
        /\ DOMAIN responseCache = {CallKey(calls[q])}

(***************************************************************************)
(* Properties of the location layer                                        *)
(***************************************************************************)
\* the mount effect runs in this step
Startup == ~booted /\ booted'
\* storage holds a usable preference: remember = "true", coordinates, a name
HasPreference ==
    /\ storage[K_REMEMBER] = <<"true">>
    /\ storage[K_COORDS] # <<>>
    /\ storage[K_NAME] # <<>>
    /\ IsJSON(storage[K_COORDS][1])
\* the saved location was the current location
WasCurrentLocation == storage[K_CURRENT] = <<"true">>
\* the location the storage st holds, whatever the preference
StoredLocation(st) ==
    [latitude |-> JSONparse(st[K_COORDS][1]).latitude,
     longitude |-> JSONparse(st[K_COORDS][1]).longitude,
     name |-> st[K_NAME][1],
     isCurrentLocation |-> st[K_CURRENT] = <<"true">>]
\* st holds all of loc
Persisted(st, loc) ==
    /\ st[K_COORDS] # <<>>
    /\ st[K_NAME] # <<>>
    /\ StoredLocation(st) = loc
\* detection d is awaited by nobody / by the startup / by a refresh
Background(d) == dets[d].origin = "startup-bg"
\* detection d succeeds / fails in this step
Succeeds(d) == dets[d].pc = "name" /\ dets'[d].pc = "done"
Fails(d) == dets[d].pc = "geo" /\ dets'[d].pc = "failed"
\* the location detection d has found, once its name is known
Detected(d) ==
    [latitude |-> dets[d].pos.latitude,
     longitude |-> dets[d].pos.longitude,
     name |-> locationData'[1].name,
     isCurrentLocation |-> TRUE]

\* C7: with remember = "true", stored coordinates (a text JSON.parse
\* accepts) and a stored name, the
\* startup step itself shows the saved location and ends loading; no
\* detection has completed in that step: the background one, if any, is
\* merely in flight
C7_FastPath ==
    [][(Startup /\ HasPreference) =>
            /\ locationData' = <<StoredLocation(storage)>>
            /\ isLoading' = FALSE
            /\ \A d \in Dets : dets'[d].pc \in {"idle", "geo"}
            /\ dets'[0].origin # "startup-fg"]_vars

\* C7 witness: the saved location shown, loading over, the background
\* detection still waiting for a position
C7_Witness ==
    /\ booted
    /\ ~isLoading
    /\ dets[0].pc = "geo"
    /\ Background(0)
    /\ locationData = <<LocationDataOf(515074, -1278, "London", FALSE)>>

\* C8 as stated: the background refresh is started exactly when the saved
\* location was not the current one, and when it succeeds its result is
\* shown and is in storage
C8_AsStated ==
    [][/\ (Startup /\ HasPreference) =>
              ((dets'[0].pc = "geo" /\ dets'[0].origin = "startup-bg")
                  <=> ~WasCurrentLocation)
       /\ (Background(0) /\ Succeeds(0)) =>
              /\ locationData' = <<Detected(0)>>
              /\ Persisted(storage', Detected(0))]_vars

\* C8: the background refresh is started exactly when the saved location
\* was not the current one; when it succeeds its result is shown, and it
\* is written to storage if remember is "true" at that moment, storage
\* being left alone otherwise
C8_BackgroundRefresh ==
    [][/\ (Startup /\ HasPreference) =>
              ((dets'[0].pc = "geo" /\ dets'[0].origin = "startup-bg")
                  <=> ~WasCurrentLocation)
       /\ (Background(0) /\ Succeeds(0)) =>
              /\ locationData' = <<Detected(0)>>
              /\ IF storage[K_REMEMBER] = <<"true">>
                 THEN Persisted(storage', Detected(0))
                 ELSE storage' = storage]_vars

\* C8 witness: the background refresh has succeeded, its result is shown
\* and stored
C8_Witness ==
    /\ Background(0)
    /\ dets[0].pc = "done"
    /\ locationData # <<>>
    /\ locationData[1].isCurrentLocation
    /\ storage[K_REMEMBER] = <<"true">>
    /\ Persisted(storage, locationData[1])

\* C9: without a usable preference the startup step starts a detection it
\* awaits, loading going on; when that detection fails, the location shown
\* is Kuala Lumpur (3.1390, 101.6869), not a current location, the error
\* is set and loading is over
C9_StartupFallback ==
    [][/\ (Startup /\ ~HasPreference) =>
              /\ dets'[0].pc = "geo"
              /\ dets'[0].origin = "startup-fg"
              /\ isLoading'
       /\ (dets[0].origin = "startup-fg" /\ Fails(0)) =>
              /\ locationData' =
                    <<[latitude |-> 31390, longitude |-> 1016869,
                       name |-> "Kuala Lumpur, Malaysia",
                       isCurrentLocation |-> FALSE]>>
              /\ error' # <<>>
              /\ isLoading' = FALSE]_vars

\* C9 witness: the awaited startup detection has failed and the default
\* location is shown with the error
C9_Witness ==
    /\ dets[0].origin = "startup-fg"
    /\ dets[0].pc = "failed"
    /\ locationData # <<>>
    /\ locationData[1].name = "Kuala Lumpur, Malaysia"
    /\ error # <<>>
    /\ ~isLoading

\* C10: a refresh that fails, started by the user or by the startup in the
\* background, leaves the location that is shown as it is, and the user's
\* refresh hands the failure to its caller
C10_FailedRefreshKeepsLocation ==
    [][\A d \in Dets :
            (dets[d].origin \in {"refresh", "startup-bg"} /\ Fails(d)
                /\ locationData # <<>>) =>
                    /\ locationData' = locationData
                    /\ dets[d].origin = "refresh" => dets'[d].thrown # <<>>]_vars

\* the keys that hold the saved location
SavedLocationKeys == {K_COORDS, K_NAME, K_CURRENT}
\* "remember location" is switched off in this step
SwitchedOff == storage[K_REMEMBER] = <<"true">> /\ storage'[K_REMEMBER] = <<"false">>
\* the app data is reset in this step: only clearAppData removes the flag
ResetsAppData == storage[K_REMEMBER] # <<>> /\ storage'[K_REMEMBER] = <<>>

\* C11: while "remember location" is switched off, storage holds no
\* coordinates, no location name and no current-location flag, whatever
\* selections, refreshes and completions of detections in flight follow
C11_NothingStoredWhenOff ==
    storage[K_REMEMBER] = <<"false">> =>
        \A k \in SavedLocationKeys : storage[k] = <<>>

\* C11 witness: the session started from a remembered location, its
\* background detection has completed and is shown, the switch is off and
\* nothing is stored
C11_Witness ==
    /\ storage[K_REMEMBER] = <<"false">>
    /\ Background(0)
    /\ dets[0].pc = "done"
    /\ locationData # <<>>
    /\ locationData[1].isCurrentLocation
    /\ \A k \in SavedLocationKeys : storage[k] = <<>>

\* C12: after the app data was reset none of the four keys of the location
\* preference is left in storage
C12_ResetClearsPreference ==
    [][ResetsAppData => \A k \in LocationKeys : storage'[k] = <<>>]_vars

\* C13 as stated: switching "remember location" off removes every key of
\* the location preference and leaves the other keys as they were
C13_AsStated ==
    [][SwitchedOff =>
            /\ \A k \in LocationKeys : storage'[k] = <<>>
            /\ \A k \in OtherKeys : storage'[k] = storage[k]]_vars

\* C13: switching "remember location" off removes the coordinates, the
\* name and the current-location flag, leaves the switch's own key in
\* storage with the value "false", and leaves the other keys as they were
C13_ClearLeavesOthers ==
    [][SwitchedOff =>
            /\ \A k \in SavedLocationKeys : storage'[k] = <<>>
            /\ storage'[K_REMEMBER] = <<"false">>
            /\ \A k \in OtherKeys : storage'[k] = storage[k]]_vars

\* C13 witness: switched off in a session that started from a remembered
\* location, with unit, theme and bookmarks still stored
C13_Witness ==
    /\ storage[K_REMEMBER] = <<"false">>
    /\ Background(0)
    /\ storage[K_UNIT] = <<"fahrenheit">>
    /\ storage[K_THEME] = <<"dark">>
    /\ storage[K_BOOKMARKS] = <<"[]">>
    /\ \A k \in SavedLocationKeys : storage[k] = <<>>

(***************************************************************************)
(* Properties of the geolocation resolver (SpecResolver)                   *)
(***************************************************************************)
\* call r has got past the check of navigator.geolocation
Asked(r) == resolves[r].platform # "none"
\* the platform has not called back for call r
Silent(r) == resolves[r].platform = "waiting"

\* C14: a call that finds the capability asks the platform exactly once;
\* of its timer and its platform callback the first to run settles the
\* promise, once, with what it asked for, and the other changes nothing;
\* the timer never runs after the platform has called back
C14_Exclusive ==
    \A r \in Resolves : Asked(r) =>
        /\ resolves[r].invoked = 1
        /\ Len(resolves[r].settlements) <= 1
        /\ (resolves[r].events = <<>>) = (resolves[r].pc = "pending")
        /\ resolves[r].events # <<>> =>
                /\ resolves[r].pc = "settled"
                /\ resolves[r].outcome = <<resolves[r].events[1].asked>>
                /\ resolves[r].settlements = <<resolves[r].events[1].asked>>
        /\ \A i \in 1..Len(resolves[r].events) :
                (resolves[r].events[i].by = "timer" => i = 1)
        /\ Len(resolves[r].events) <= 2

\* C14 witness: the timer has fired, the platform has called back after it,
\* and the promise is still rejected with the timer's error
C14_Witness ==
    \E r \in Resolves :
        /\ Len(resolves[r].events) = 2
        /\ resolves[r].events[1].by = "timer"
        /\ resolves[r].events[2].by = "platform"
        /\ resolves[r].events[2].asked.kind = "resolved"
        /\ resolves[r].outcome = <<TimerRejection(resolves[r].fn)>>

\* C15: a call the platform never answers is rejected with the timer's
\* timeout error, not before `timeout` and not after `timeout` + 1000 ms
\* from its start, and it is not left pending beyond that
C15_TimeoutWindow ==
    \A r \in Resolves : Silent(r) =>
        /\ resolves[r].pc = "settled" =>
                /\ resolves[r].outcome = <<TimerRejection(resolves[r].fn)>>
                /\ resolves[r].settledAt - resolves[r].started >= resolves[r].timeout
                /\ resolves[r].settledAt - resolves[r].started
                        <= resolves[r].timeout + TIMER_BUFFER
        /\ resolves[r].pc = "pending" =>
                now - resolves[r].started <= resolves[r].timeout + TIMER_BUFFER

\* C15 witness: detectUserLocation's call (timeout 5000) rejected by the
\* timer 6000 ms after its start, the platform silent
C15_Witness ==
    \E r \in Resolves :
        /\ Silent(r)
        /\ resolves[r].fn = "getCurrentPosition"
        /\ resolves[r].timeout = 5000
        /\ resolves[r].pc = "settled"
        /\ resolves[r].settledAt - resolves[r].started = 6000

(***************************************************************************)
(* More properties of the location layer (SpecLocation)                    *)
(***************************************************************************)
\* the user selects a place in this step
SelectsPlace ==
    /\ booted /\ booted'
    /\ dets' = dets
    /\ locationData' # locationData
\* the startup's background detection is still in flight
BackgroundPending == Background(0) /\ dets[0].pc \in {"geo", "name"}
\* a selected place is shown
SelectionShown == locationData \in {<<loc>> : loc \in ManualLocations}

\* C16: a place selected while the background detection is in flight is
\* shown at once and the detection stays in flight; when the detection
\* completes afterwards its location replaces the selected place; a place
\* selected after the completion replaces the detected location
C16_LastWriteWins ==
    [][/\ (BackgroundPending /\ SelectsPlace) =>
              /\ locationData' \in {<<loc>> : loc \in ManualLocations}
              /\ dets'[0].pc = dets[0].pc
       /\ (Background(0) /\ Succeeds(0) /\ SelectionShown) =>
              locationData' = <<Detected(0)>>
       /\ (Background(0) /\ dets[0].pc = "done" /\ SelectsPlace) =>
              locationData' \in {<<loc>> : loc \in ManualLocations}]_vars

\* C16 witness: the place selected by the user is shown while the
\* background detection, which has its position, still waits for the name
C16_Witness ==
    /\ Background(0)
    /\ dets[0].pc = "name"
    /\ locationData = <<LocationDataOf(356762, 1396503, "Tokyo", FALSE)>>

(***************************************************************************)
(* Properties of the reverse geocoding (SpecGeocode)                       *)
(***************************************************************************)
\* lookup l is called in this step
Called(l) == lookups[l].pc = "idle" /\ lookups'[l].pc # "idle"
\* lookup l has returned
Returned(l) == lookups[l].pc = "done" /\ lookups[l].returned # <<>>
\* lookup l has returned a name made of a provider response
FromResponse(l) == lookups[l].pc = "done" /\ lookups[l].answer \in {"results", "empty"}
\* the pair of 4-decimal coordinates the arguments of a lookup round to
RoundedPair(lookup) == <<(lookup.lat + 5) \div 10, (lookup.lon + 5) \div 10>>
\* v is c (5 decimals) formatted to 4 decimals
Formats(v, c) == 10 * v - c <= 5 /\ c - 10 * v <= 5
\* name has the form "Location (X.XXXX, Y.YYYY)" for the coordinates of lookup
IsFallbackFor(name, lookup) ==
    /\ Len(name) = 5
    /\ name[1] = "Location (" /\ name[3] = ", " /\ name[5] = ")"
    /\ Formats(name[2], lookup.lat)
    /\ Formats(name[4], lookup.lon)

\* C17: a lookup the provider answers without results, or whose request
\* fails, returns "Location (lat, lon)" with its coordinates at 4 decimals;
\* no lookup ever rejects
C17_Fallback ==
    \A l \in Lookups :
        /\ lookups[l].thrown = <<>>
        /\ lookups[l].pc = "done" => lookups[l].returned # <<>>
        /\ lookups[l].answer \in {"empty", "failed"} =>
                IsFallbackFor(lookups[l].returned[1], lookups[l])

\* C17 witness: a lookup whose request failed has returned the fallback of
\* a south-western coordinate
C17_Witness ==
    \E l \in Lookups :
        /\ lookups[l].answer = "failed"
        /\ lookups[l].returned = <<<<"Location (", -33869, ", ", -1512093, ")">>>>

\* C18 as stated: once a lookup has returned, a lookup called later for a
\* coordinate that rounds to the same pair returns the same name at once,
\* without a request
C18_AsStated ==
    [][\A l1, l2 \in Lookups :
            (Returned(l1) /\ Called(l2) /\ RoundedPair(lookups'[l2]) = RoundedPair(lookups[l1]))
                => /\ lookups'[l2].pc = "done"
                   /\ lookups'[l2].net = 0
                   /\ lookups'[l2].returned = lookups[l1].returned]_vars

\* the cache holds, for lookup l, its name or the name of another lookup of
\* the same pair that the provider answered
CachedFor(l) ==
    /\ RoundedPair(lookups[l]) \in DOMAIN geocodingCache
    /\ \E m \in Lookups :
            /\ FromResponse(m)
            /\ RoundedPair(lookups[m]) = RoundedPair(lookups[l])
            /\ geocodingCache[RoundedPair(lookups[l])] = lookups[m].returned[1]

\* C18: a name made of a provider response, the fallback for no results
\* included, stays cached under the rounded pair (unless a lookup of the
\* same pair that was in flight replaces it by its own); a lookup called for
\* a pair that is cached returns the cached name at once, without a
\* request; the fallback of a failed request is not cached, and without an
\* entry the lookup sends a request
C18_Cached ==
    /\ [](\A l \in Lookups : FromResponse(l) => CachedFor(l))
    /\ [][\A l \in Lookups :
            /\ (Called(l) /\ RoundedPair(lookups'[l]) \in DOMAIN geocodingCache) =>
                    /\ lookups'[l].pc = "done"
                    /\ lookups'[l].net = 0
                    /\ lookups'[l].returned = <<geocodingCache[RoundedPair(lookups'[l])]>>
            /\ (Called(l) /\ RoundedPair(lookups'[l]) \notin DOMAIN geocodingCache) =>
                    lookups'[l].pc = "net" /\ lookups'[l].net = 1
            /\ (lookups[l].pc = "net" /\ lookups'[l].answer = "failed") =>
                    geocodingCache' = geocodingCache]_vars

\* C18 witness: a lookup has returned the fallback for no results, and a
\* later lookup of another coordinate of the same pair has returned that
\* name without a request
C18_Witness ==
    \E l1, l2 \in Lookups :
        /\ l1 < l2
        /\ lookups[l1].answer = "empty"
        /\ lookups[l2].pc = "done"
        /\ lookups[l2].net = 0
        /\ lookups[l2].lat # lookups[l1].lat
        /\ lookups[l2].returned = lookups[l1].returned

\* the subdivision the name of a place ends with: <<>> when it has none
Subdivision(place) ==
    IF place.admin3 \notin {<<>>, <<"">>} THEN place.admin3
    ELSE IF place.admin2 \notin {<<>>, <<"">>} THEN place.admin2
    ELSE IF place.admin1 \notin {<<>>, <<"">>} THEN place.admin1
    ELSE IF place.country \notin {<<>>, <<"">>} THEN place.country
    ELSE <<>>

\* C19: the name made of results[0] is its name, followed by ", " and the
\* first of admin3, admin2, admin1, country that is there, or by nothing;
\* "Kuala Lumpur" with admin1 "Kuala Lumpur" and country "Malaysia" gives
\* "Kuala Lumpur, Kuala Lumpur"
C19_Naming ==
    \A l \in Lookups : lookups[l].answer = "results" =>
        /\ lookups[l].returned =
              IF Subdivision(lookups[l].place) = <<>>
              THEN <<<<lookups[l].place.name>>>>
              ELSE <<<<lookups[l].place.name \o ", " \o Subdivision(lookups[l].place)[1]>>>>
        /\ lookups[l].place =
              [name |-> "Kuala Lumpur", admin3 |-> <<>>, admin2 |-> <<>>,
               admin1 |-> <<"Kuala Lumpur">>, country |-> <<"Malaysia">>]
                    => lookups[l].returned = <<<<"Kuala Lumpur, Kuala Lumpur">>>>

\* C19 witness: the lookup answered with Kuala Lumpur has returned
\* "Kuala Lumpur, Kuala Lumpur"
C19_Witness ==
    \E l \in Lookups :
        /\ lookups[l].answer = "results"
        /\ lookups[l].place.admin1 = <<"Kuala Lumpur">>
        /\ lookups[l].place.admin2 = <<>>
        /\ lookups[l].returned = <<<<"Kuala Lumpur, Kuala Lumpur">>>>

(***************************************************************************)
(* Properties of the mapping of the response (SpecNormalize)               *)
(***************************************************************************)
\* the fields of the WeatherData that was returned
ReturnedFields ==
    {mapping.weatherData.current.temperature,
     mapping.weatherData.current.uvIndex,
     mapping.weatherData.daily.precipitationProbabilityMax,
     mapping.weatherData.hourly.precipitationProbability}

\* C20: no field of a returned WeatherData is undefined, and a field the
\* response does not have is 0
C20_AbsentFieldsAreZero ==
    mapping.pc = "returned" =>
        /\ <<>> \notin ReturnedFields
        /\ mapping.data.hourly[1].precipitation_probability = <<>> =>
                mapping.weatherData.hourly.precipitationProbability = <<0>>
        /\ mapping.data.daily[1].precipitation_probability_max = <<>> =>
                mapping.weatherData.daily.precipitationProbabilityMax = <<0>>
        /\ mapping.data.current[1].uv_index = <<>> =>
                mapping.weatherData.current.uvIndex = <<0>>
        /\ mapping.data.current[1].temperature_2m = <<>> =>
                mapping.weatherData.current.temperature = <<0>>

(***************************************************************************)
(* Properties of the location layer: a preference JSON.parse rejects       *)
(***************************************************************************)
\* storage holds remember = "true", a name and a coordinate text that
\* JSON.parse rejects
CorruptPreference ==
    /\ storage[K_REMEMBER] = <<"true">>
    /\ storage[K_COORDS] # <<>>
    /\ storage[K_NAME] # <<>>
    /\ ~IsJSON(storage[K_COORDS][1])
\* the detection initializeLocation awaits
Foreground(d) == dets[d].origin = "startup-fg"

\* C21 as stated: a startup that finds a coordinate text that is not JSON
\* discards it, resolves the default location and sets no error
C21_AsStated ==
    [][(Startup /\ CorruptPreference) =>
            /\ locationData' = <<getDefaultLocation>>
            /\ error' = <<>>
            /\ storage'[K_COORDS] = <<>>]_vars

\* C21: a startup that finds a coordinate text that is not JSON goes on as
\* with no preference: nothing is removed from storage, no error is set,
\* nothing is shown yet and the detection is awaited with loading on; when
\* that detection succeeds its location is shown, and when it fails the
\* default location is shown with the detection's error
C21_TreatedAsAbsent ==
    [][/\ (Startup /\ CorruptPreference) =>
            /\ error' = <<>>
            /\ locationData' = <<>>
            /\ isLoading'
            /\ dets'[0] = [IdleDet EXCEPT !.pc = "geo", !.origin = "startup-fg"]
            /\ storage' = storage
       /\ (Foreground(0) /\ Succeeds(0)) =>
            /\ locationData' = <<Detected(0)>>
            /\ error' = error
       /\ (Foreground(0) /\ Fails(0)) =>
            /\ locationData' = <<getDefaultLocation>>
            /\ error' \in {<<err>> : err \in GeoErrors}]_vars

\* C21 witness: the page has started on the corrupt preference, which is
\* still in storage, and awaits the detection
C21_Witness ==
    /\ booted
    /\ CorruptPreference
    /\ Foreground(0)
    /\ dets[0].pc = "geo"
    /\ isLoading
    /\ locationData = <<>>

(***************************************************************************)
(* Properties of the place search                                          *)
(***************************************************************************)
\* q is empty, of whitespace only, or shorter than 2 characters once trimmed
TooShort(q) == Len(trim(q)) < 2
\* the input changes in this step
QueryChanges == query' # query
\* the searchLocation calls the box has made, and the last of them
BoxSearches == {i \in DOMAIN searches : searches[i].by = "box"}
LatestBoxSearch == CHOOSE i \in BoxSearches : \A j \in BoxSearches : j <= i
\* the box search i is answered with places in this step
Answered(i) ==
    /\ i \in BoxSearches
    /\ searches[i].pc = "fetch"
    /\ searches'[i].pc = "done"

\* C22: searchLocation called with a text that is too short has returned
\* the empty list and has not called fetchWithRetry; the box never has a
\* call pending for such a text, and when its input becomes such a text it
\* empties and closes its list and makes no searchLocation call
C22_ShortCircuit ==
    /\ [](\A i \in DOMAIN searches :
            TooShort(searches[i].query) =>
                /\ ~searches[i].requested
                /\ searches[i].pc = "done"
                /\ searches[i].returned = <<>>)
    /\ [](debounced # <<>> => ~TooShort(debounced[1]))
    /\ [][(QueryChanges /\ TooShort(query')) =>
            /\ results' = <<>>
            /\ ~showResults'
            /\ debounced' = <<>>
            /\ searches' = searches]_vars

\* C22 witness: a caller has passed " a " and got the empty list without a
\* request, and the box, which had listed places, holds a text of
\* whitespace and an empty list
C22_Witness ==
    /\ \E i \in DOMAIN searches :
            /\ searches[i].by = "api"
            /\ searches[i].query = <<" ", "a", " ">>
            /\ ~searches[i].requested
            /\ searches[i].returned = <<>>
    /\ \E i \in BoxSearches : searches[i].returned # <<>>
    /\ query = <<" ">>
    /\ results = <<>>
    /\ ~showResults

\* C30: an open, non-empty list holds the places found for the text of the
\* last search the box has issued, and the answer to a search that is not
\* the last one issued, or that arrives when the input has been emptied (by
\* the clear button or by a selection), changes neither the list nor
\* whether it is open
C30_ResultsOfLatestQuery ==
    /\ []((showResults /\ results # <<>>) =>
            /\ BoxSearches # {}
            /\ results[1].name = searches[LatestBoxSearch].query)
    /\ [][\A i \in DOMAIN searches :
            (Answered(i) /\ (i # LatestBoxSearch \/ query = <<>>)) =>
                UNCHANGED <<results, showResults>>]_vars

(***************************************************************************)
(* Properties of the fetch layer: the lifetime of an entry, the keys and   *)
(* the coordinates requested                                               *)
(***************************************************************************)
\* the call p is made in this step
Starts(p) == calls[p].pc = "idle" /\ calls'[p].pc # "idle"
\* the map the call c looks up, and the lifetime of its entries
CacheOf(c) == IF c.kind = "forecast" THEN responseCache ELSE cache
LifetimeOf(c) == IF c.kind = "forecast" THEN CACHE_DURATION ELSE CACHE_EXPIRATION
\* the call c finds an entry under its key, of this age
FindsEntry(c) == CallKey(c) \in DOMAIN CacheOf(c)
AgeFor(c) == now - CacheOf(c)[CallKey(c)].timestamp
\* the call c has been served the entry under its key / has gone to the
\* network with its first request
ServedEntry(c) ==
    /\ c.pc = "ok" /\ c.hit /\ c.net = 0
    /\ c.data = CacheOf(c)[CallKey(c)].data
Refetches(c) == c.pc = "net" /\ ~c.hit /\ c.net = 1

\* C23 as stated: a call that finds an entry whose age is at most the
\* lifetime is served from the cache, and one that finds an older entry
\* goes to the network
C23_AsStated ==
    [][\A p \in Calls :
        (Starts(p) /\ FindsEntry(calls'[p])) =>
            /\ AgeFor(calls'[p]) <= LifetimeOf(calls'[p]) => ServedEntry(calls'[p])
            /\ AgeFor(calls'[p]) > LifetimeOf(calls'[p]) => Refetches(calls'[p])]_vars

\* C23: a call that finds an entry whose age is less than the lifetime is
\* served from the cache, and one that finds an entry whose age is the
\* lifetime or more goes to the network
C23_ExpiresAtLifetime ==
    [][\A p \in Calls :
        (Starts(p) /\ FindsEntry(calls'[p])) =>
            /\ AgeFor(calls'[p]) < LifetimeOf(calls'[p]) => ServedEntry(calls'[p])
            /\ AgeFor(calls'[p]) >= LifetimeOf(calls'[p]) => Refetches(calls'[p])]_vars

\* C23 witness: a forecast is asked for again at the millisecond the entry
\* of the first call reaches its lifetime, and a request is in flight
C23_Witness ==
    \E p \in Calls, q \in Calls :
        /\ q < p /\ Forecast(p) /\ Forecast(q)
        /\ CallKey(calls[p]) = CallKey(calls[q])
        /\ calls[q].pc = "ok" /\ ~calls[q].hit
        /\ Refetches(calls[p])
        /\ FindsEntry(calls[p])
        /\ responseCache[CallKey(calls[p])].timestamp = calls[q].doneAt
        /\ now = calls[q].doneAt + CACHE_DURATION

\* the call q, of the kind of the call p that is being made and with its
\* parameter set, fetched its payload for a coordinate that rounds to the
\* same 2 decimals and resolved less than the lifetime ago, and the caches
\* have not been cleared since
RoundsAlike(q, p) ==
    /\ q # p
    /\ calls[q].kind = calls'[p].kind
    /\ calls[q].unit = calls'[p].unit
    /\ calls[q].pc = "ok" /\ ~calls[q].hit /\ ~calls[q].cleared
    /\ toFixed2(calls[q].coord) = toFixed2(calls'[p].coord)
    /\ now - calls[q].doneAt < LifetimeOf(calls[q])

\* C24 as stated: a request whose coordinate rounds to the same 2 decimals
\* as that of an earlier request with the same parameter set has the same
\* key and is served from the cache while the entry is within its lifetime
C24_AsStated ==
    [][\A p \in Calls, q \in Calls :
        (Starts(p) /\ RoundsAlike(q, p)) =>
            /\ CallKey(calls'[p]) = CallKey(calls[q])
            /\ ServedEntry(calls'[p])]_vars

\* C24: that holds of fetchWeatherDataOptimized, whose key holds the
\* rounded coordinate.  The key of fetchWithRetry holds the coordinate as
\* passed: a forecast request is served from the entry of an earlier one
\* when the two coordinates are equal, and has another key, under which it
\* goes to the network unless that key has an entry of its own, when they
\* only round alike
C24_RoundedKeyOfOptimized ==
    [][\A p \in Calls, q \in Calls :
        (Starts(p) /\ RoundsAlike(q, p)) =>
            IF calls'[p].kind = "optimized" \/ calls'[p].coord = calls[q].coord
            THEN /\ CallKey(calls'[p]) = CallKey(calls[q])
                 /\ ServedEntry(calls'[p])
            ELSE /\ CallKey(calls'[p]) # CallKey(calls[q])
                 /\ ~FindsEntry(calls'[p]) => Refetches(calls'[p])]_vars

\* C24 witness: fetchWeatherDataOptimized called for 3.141 has been served
\* what the call for 3.139 had fetched
C24_Witness ==
    \E p \in Calls, q \in Calls :
        /\ calls[q].kind = "optimized" /\ calls[p].kind = "optimized"
        /\ calls[q].coord = 3139 /\ calls[p].coord = 3141
        /\ calls[q].pc = "ok" /\ ~calls[q].hit
        /\ calls[p].pc = "ok" /\ calls[p].hit /\ calls[p].net = 0
        /\ calls[p].data = calls[q].data

\* C25: every request carries the coordinate its caller passed, unrounded:
\* those of fetchWeatherByCoordinates and fetchWeatherDataOptimized, and
\* those of getLocationNameFromCoords
C25_LiteralCoordinates ==
    /\ \A p \in Calls : calls[p].net > 0 => calls[p].sent = calls[p].coord
    /\ \A l \in Lookups :
            lookups[l].net > 0 => lookups[l].asked = <<lookups[l].lat, lookups[l].lon>>

(***************************************************************************)
(* Properties of the reverse geocoding: the rounding                       *)
(***************************************************************************)
\* the 4-decimal number r as a coordinate
AsCoordinate(r) == r * 10
\* the coordinate of lookup a is the coordinate of lookup b, rounded
RoundedFormOf(a, b) ==
    /\ a.lat = AsCoordinate(Round4(b.lat))
    /\ a.lon = AsCoordinate(Round4(b.lon))

\* C27: rounding the rounded coordinate of a call gives the rounded
\* coordinate, so both have one key; and a call for the rounded form of the
\* coordinate of a call whose name was cached, or the other way round, is
\* answered from the cache without a request
C27_RoundingIdempotent ==
    /\ [](\A l \in Lookups :
            lookups[l].pc # "idle" =>
                /\ Round4(AsCoordinate(Round4(lookups[l].lat))) = Round4(lookups[l].lat)
                /\ Round4(AsCoordinate(Round4(lookups[l].lon))) = Round4(lookups[l].lon)
                /\ geocodingKey(AsCoordinate(Round4(lookups[l].lat)),
                                AsCoordinate(Round4(lookups[l].lon))) = LookupKey(l))
    /\ [][\A l \in Lookups, m \in Lookups :
            (/\ Called(l)
             /\ FromResponse(m)
             /\ RoundedFormOf(lookups'[l], lookups[m])
                    \/ RoundedFormOf(lookups[m], lookups'[l])) =>
                /\ lookups'[l].pc = "done"
                /\ lookups'[l].net = 0
                /\ lookups'[l].returned = <<geocodingCache[LookupKey(m)]>>]_vars

\* C27 witness: the name found for -3.38688, -151.2093 has been returned
\* from the cache to a call for -3.3869, -151.2093
C27_Witness ==
    \E l \in Lookups, m \in Lookups :
        /\ lookups[m].lat = -338688 /\ lookups[m].answer = "results"
        /\ lookups[l].lat = -338690 /\ lookups[l].lon = lookups[m].lon
        /\ lookups[l].pc = "done" /\ lookups[l].net = 0
        /\ lookups[l].returned = lookups[m].returned

(***************************************************************************)
(* Properties of the location layer: writes key by key, storage and        *)
(* display, the loading flag                                               *)
(***************************************************************************)
\* st holds a usable preference made of the coordinate of a position and
\* of a name that is not a name of that position
Mixed(st) ==
    /\ st[K_REMEMBER] = <<"true">>
    /\ st[K_COORDS] # <<>> /\ IsJSON(st[K_COORDS][1])
    /\ st[K_NAME] # <<>>
    /\ \E pos \in Positions :
            /\ JSONparse(st[K_COORDS][1]) = pos
            /\ st[K_NAME][1] \notin NamesOf(pos)
\* detection d gets its position in this step
Locates(d) == dets[d].pc = "geo" /\ dets'[d].pc = "name"

\* C26: with remember = "true" and the name of another place in storage, a
\* detection that gets its position leaves the coordinate of the position
\* next to that name, while it waits for the name of the position; and a
\* startup on such a storage shows the mixed location: the coordinate of
\* the position, the name of the other place
C26_PartialWrite ==
    [][/\ \A d \in Dets :
            (/\ Locates(d)
             /\ storage[K_REMEMBER] = <<"true">>
             /\ storage[K_NAME] # <<>>
             /\ storage[K_NAME][1] \notin NamesOf(dets'[d].pos)) =>
                /\ Mixed(storage')
                /\ JSONparse(storage'[K_COORDS][1]) = dets'[d].pos
                /\ storage'[K_NAME] = storage[K_NAME]
       /\ (Startup /\ Mixed(storage)) =>
            /\ locationData' = <<StoredLocation(storage)>>
            /\ locationData'[1].name \notin
                    NamesOf([latitude |-> locationData'[1].latitude,
                             longitude |-> locationData'[1].longitude])
            /\ ~isLoading']_vars

\* C26 witness: the page was loaded again between the two writes of a
\* detection, and shows the position found under the name "London"
C26_Witness ==
    /\ booted
    /\ Mixed(storage)
    /\ \A d \in Dets : dets[d].pc = "idle"
    /\ locationData = <<LocationDataOf(31200, 1016700, "London", TRUE)>>

\* no detection is in flight
AtRest == booted /\ \A d \in Dets : dets[d].pc \notin {"geo", "name"}

\* C28: with remember = "true" and no detection in flight, what
\* getSavedLocation would return is null or the location shown
C28_StorageMatchesDisplay ==
    (AtRest /\ storage[K_REMEMBER] = <<"true">>) =>
        \/ getSavedLocation(storage) = <<>>
        \/ getSavedLocation(storage) = locationData

\* a detection that initializeLocation or a refreshCurrentLocation call
\* awaits is in flight
ForegroundInFlight ==
    \E d \in Dets :
        /\ dets[d].origin \in {"startup-fg", "refresh"}
        /\ dets[d].pc \in {"geo", "name"}

\* C29: once the mount effect has run, isLoading is true exactly while a
\* detection awaited by the startup or by a refresh is in flight
C29_LoadingWhileInFlight == booted => (isLoading <=> ForegroundInFlight)

====
